---- MODULE Spec2Model ----
(***************************************************************************)
(* Model of the comparison and inference engine of MCP_STEP_Analyzer:      *)
(*   - BaselineComparator (src/baseline_comparator.py): compare() and its  *)
(*     BOM, geometry, topology and metadata differs;                       *)
(*   - ConfigurationManager._analyze_component_pair / _find_aligned_holes  *)
(*     (src/config_manager.py): interface inference;                       *)
(*   - _compare_interfaces and _analyze_impact (src/MCP_STEP.py).          *)
(*                                                                         *)
(* Numbers.  A number of the program is a Python float.  The model holds   *)
(* the decimal the float is written with, as the integer count of a        *)
(* decimal unit:                                                           *)
(*   hole x, y, z        tenths       (stored with round(.., 1),           *)
(*                                     config_manager.py:723-725)          *)
(*   hole diameter d     thousandths  (round(.., 3), :722)                 *)
(*   bbox dims           hundredths   (round(.., 2), :692)                 *)
(*   interface distance  hundredths   (round(distance, 2), :625, :638)     *)
(*   center of gravity   hundredths                                        *)
(*   volume, surface area  ten-thousandths                                 *)
(*                       The source stores these three as the kernel       *)
(*                       returns them, unrounded (:408-411); the model     *)
(*                       takes the values that are whole in its unit.      *)
(* A threshold of the source is written in the unit of what it bounds.     *)
(* A comparison gives what the floats give, also where the decimals sit    *)
(* on the threshold (section "Floating point").  The integers of the       *)
(* model stay below 2^31: lengths are below 230 units.                     *)
(* Text: a message the source formats as a string is a record holding the  *)
(* marker word the string starts with ("tag") and the values formatted     *)
(* into it; `"word" in diff` of the source is Contains(diff, word).        *)
(* Accents of the source's marker words are dropped.                       *)
(*                                                                         *)
(* Iteration order of a Python set is not fixed by the language: each      *)
(* operator that iterates a set takes the order as an argument and the     *)
(* action that applies it chooses the order nondeterministically.          *)
(***************************************************************************)
EXTENDS Integers, Sequences, FiniteSets, TLC

VARIABLES
    baseline1,          \* BaselineComparator.baseline1, None until it is set
    baseline2,          \* BaselineComparator.baseline2, None until it is set
    baseline1_path,     \* BaselineComparator.baseline1_path: None, or the file
    baseline2_path,     \* it names (baseline2_path likewise)
    changes,            \* BaselineComparator.changes
    ran,                \* the differs the last call ran, in order
    reports,            \* the reports generate_report() has written
    outcome,            \* how the last call ended on the present baselines:
                        \* "ok", the exception it raised ("ValueError",
                        \* "RuntimeError", "TypeError", "KeyError",
                        \* "AttributeError"), "hang" (it does not return),
                        \* or "none" when none was made on them
    calls,              \* number of calls made on the comparator
    called,             \* the method of the last of them: "compare",
                        \* "compare_bom", "compare_geometry",
                        \* "compare_topology", "compare_metadata" or
                        \* "generate_report"; "none" before the first
    iterated,           \* the orders in which the last compare_topology
                        \* iterated its sets of holes, or NotRun
    pc,                 \* the line compare_step_files is about to run on
                        \* the comparator it has built: "l183", "l185",
                        \* "l188", "l197", "l200", "return", "raise"; "none"
                        \* when the comparator is not that of a tool call
    interfaces1,        \* compare_step_files: interfaces of the first file,
                        \* <<>> as long as line 190 has not assigned it
    interfaces2,        \* compare_step_files: interfaces of the second file
    interface_changes,  \* result of _compare_interfaces, or None
    impact_analysis,    \* result of _analyze_impact, or None
    comp1,              \* _analyze_component_pair: first component
    comp2,              \* _analyze_component_pair: second component
    interface,          \* result of _analyze_component_pair, NotRun or None
    aligned,            \* [pairs |-> result of _find_aligned_holes], or NotRun
    pow_ties            \* how the platform's pow() rounds: the distances
                        \* that equal their threshold as decimals and come
                        \* out [below] it, and those that come out [above]

vars == <<baseline1, baseline2, baseline1_path, baseline2_path, changes, ran,
          reports, outcome, calls, called, iterated,
          pc, interfaces1, interfaces2, interface_changes, impact_analysis,
          comp1, comp2, interface, aligned, pow_ties>>

comparatorVars == <<baseline1, baseline2, baseline1_path, baseline2_path, changes,
                    ran, reports, outcome, calls, called, iterated>>
toolVars == <<pc, interfaces1, interfaces2, interface_changes, impact_analysis>>
pairVars == <<comp1, comp2, interface, aligned>>

\* Python's None, and the value of a result variable before the call.
None == [none |-> TRUE]
NotRun == [notrun |-> TRUE]
\* What a function that raised KeyError gives.
KeyError == [raised |-> "KeyError"]

(***************************************************************************)
(* Generic helpers.                                                        *)
(***************************************************************************)
Abs(n) == IF n < 0 THEN -n ELSE n

Range(s) == {s[i] : i \in 1..Len(s)}

\* All the orders in which a set can be iterated.
Orders(S) ==
    {s \in [1..Cardinality(S) -> S] : \A i, j \in 1..Cardinality(S) : s[i] = s[j] => i = j}

\* All sequences over S of length at most n.
SeqsUpTo(S, n) == UNION {[1..k -> S] : k \in 0..n}

RECURSIVE Concat(_)
Concat(ss) == IF ss = <<>> THEN <<>> ELSE Head(ss) \o Concat(Tail(ss))

\* [f(x) for x in s]
RECURSIVE MapSeq(_, _)
MapSeq(F(_), s) == IF s = <<>> THEN <<>> ELSE <<F(Head(s))>> \o MapSeq(F, Tail(s))

\* Lexicographic order of the component names the model uses (Python's
\* sorted() on strings).
NameOrder ==
    <<"asm", "asm > bracket", "asm > cover", "asm > panel", "bracket", "cover", "panel">>
Names == Range(NameOrder)
NameRank(n) == CHOOSE i \in 1..Len(NameOrder) : NameOrder[i] = n

(***************************************************************************)
(* Floating point.  A number of the program is a Python float (IEEE 754    *)
(* binary64); the model holds the decimal n / 10^k it was written as, as   *)
(* the integer n, and decides a comparison as binary64 arithmetic does.    *)
(* float(n / 10^k) is the double nearest to the decimal; its error is a    *)
(* whole number of 1 / 10^k of its unit in the last place, found from the  *)
(* remainder of n * 2^s by 10^k.  abs(a - b) > t differs from the same     *)
(* test on the decimals only when abs(a - b) = t as decimals; then the     *)
(* side is that of the sum of the three errors against half the distance   *)
(* from float(t) to the next double.                                       *)
(*                                                                         *)
(* A distance ((..)**2 + (..)**2 + (..)**2)**0.5 goes through pow(), whose *)
(* last bit the C library decides.  When one axis differs, the root of the *)
(* square is the difference itself.  When several differ and the decimals  *)
(* sit on the threshold, the side is the library's: pow_ties holds it,     *)
(* unless every number is a double, and then the distance is the           *)
(* threshold.                                                              *)
(***************************************************************************)
Pow10(k) == 10^k

Sign(n) == IF n > 0 THEN 1 ELSE IF n < 0 THEN -1 ELSE 0

Larger(a, b) == IF a >= b THEN a ELSE b
Smaller(a, b) == IF a >= b THEN b ELSE a

\* 2^s modulo m.
RECURSIVE PowMod(_, _)
PowMod(s, m) == IF s = 0 THEN 1 % m ELSE (2 * PowMod(s - 1, m)) % m

\* The binary exponent E of the decimal n / 10^k, n > 0:
\* 2^E <= n / 10^k < 2^(E+1).
Exponent(n, k) ==
    IF n >= Pow10(k)
    THEN CHOOSE E \in 0..30 :
             2^E <= n \div Pow10(k) /\ (E = 30 \/ n \div Pow10(k) < 2^(E + 1))
    ELSE -(CHOOSE j \in 1..14 : n * 2^j >= Pow10(k) /\ n * 2^(j - 1) < Pow10(k))

\* The same for the size of any n; 0 has none, and its term no weight.
ExponentOf(n, k) == IF n = 0 THEN 0 ELSE Exponent(Abs(n), k)

\* n * 2^(52 - E) modulo m: the decimal, in units in the last place of its
\* double, is this number over 10^k.
Scaled(n, k, m) == ((n % m) * PowMod(52 - Exponent(n, k), m)) % m

\* The way from the remainder r of a number by m to the nearest multiple.
Nearest(r, m) == IF 2 * r < m THEN -r ELSE m - r

\* float(n / 10^k) - n / 10^k for n > 0, in 1 / 10^k of a unit in the last
\* place (round to nearest; no decimal of the model is half way).
RoundErr(n, k) == Nearest(Scaled(n, k, Pow10(k)), Pow10(k))

\* The same for any n: float(-x) = -float(x), float(0) = 0.
FloatErr(n, k) == IF n = 0 THEN 0 ELSE Sign(n) * RoundErr(Abs(n), k)

\* The multiple of m nearest to a number is odd; r2 is the remainder of the
\* number by 2 * m.
OddNearest(r2, m) == ((r2 \div m) + (IF 2 * (r2 % m) < m THEN 0 ELSE 1)) % 2 = 1

\* The significand of float(n / 10^k) is odd (n > 0).
SignificandOdd(n, k) == OddNearest(Scaled(n, k, 2 * Pow10(k)), Pow10(k))

\* n / 10^k is 2^E.
IsTwoTo(n, k, E) == IF E >= 0 THEN n = Pow10(k) * 2^E ELSE n * 2^(-E) = Pow10(k)

\* n / 10^k is a power of two (n > 0): the double below it is half as far
\* as the double above.
IsPowerOfTwo(n, k) == IsTwoTo(n, k, Exponent(n, k))

\* The sum of the coefficients c of the terms <<c, e>>, and of their sizes.
RECURSIVE SumOfCoefficients(_)
SumOfCoefficients(terms) ==
    IF terms = <<>> THEN 0 ELSE Head(terms)[1] + SumOfCoefficients(Tail(terms))
RECURSIVE SumOfSizes(_)
SumOfSizes(terms) ==
    IF terms = <<>> THEN 0 ELSE Abs(Head(terms)[1]) + SumOfSizes(Tail(terms))

\* The largest exponent e of the terms <<c, e>>.
MaxExponent(terms) ==
    CHOOSE e \in {terms[i][2] : i \in 1..Len(terms)} :
        \A i \in 1..Len(terms) : terms[i][2] <= e

\* The sign of the sum of c * 2^e over the terms <<c, e>>, c # 0.  The
\* terms of the largest exponent m, of sum top, decide as soon as they
\* outweigh the rest; until then they join the terms of the next exponent.
RECURSIVE SignOfTerms(_)
Outweighs(top, rest, shift) ==
    shift >= 30 \/ Abs(top) > SumOfSizes(rest) \div 2^shift
Joined(top, rest, m, m2) ==
    IF Outweighs(top, rest, m - m2) THEN Sign(top)
    ELSE SignOfTerms(<<<<top * 2^(m - m2), m2>>>> \o rest)
Leading(top, rest, m) ==
    IF rest = <<>> THEN Sign(top)
    ELSE IF top = 0 THEN SignOfTerms(rest)
    ELSE Joined(top, rest, m, MaxExponent(rest))
SignOfTerms(terms) ==
    IF terms = <<>> THEN 0
    ELSE Leading(SumOfCoefficients(SelectSeq(terms, LAMBDA t : t[2] = MaxExponent(terms))),
                 SelectSeq(terms, LAMBDA t : t[2] # MaxExponent(terms)),
                 MaxExponent(terms))

\* The sign of the sum of c * 2^e over the terms <<c, e>>.
SignOfSum(terms) == SignOfTerms(SelectSeq(terms, LAMBDA t : t[1] # 0))

\* A float difference on side of the middle of two doubles rounds to the
\* upper one: above the middle, or on it when the upper one is even.
RoundsUp(side, odd) == side > 0 \/ (side = 0 /\ odd)

\* The side of float(hi) - float(lo), rounded, of float(t) when the
\* decimals give hi - lo = t: the errors fh, fl, ft of the three floats, at
\* the exponents eh, el, et and in 1 / u of a unit in the last place,
\* against half the way to the double above float(t) and to the double
\* below, which is gaps / 2 as far.
TieSide(fh, eh, fl, el, ft, et, u, gaps, odd) ==
    IF RoundsUp(SignOfSum(<<<<2 * fh, eh>>, <<-2 * fl, el>>,
                            <<-(2 * ft + u), et>>>>), odd) THEN 1
    ELSE IF RoundsUp(SignOfSum(<<<<-4 * fh, eh>>, <<4 * fl, el>>,
                                 <<4 * ft - gaps * u, et>>>>), odd) THEN -1
    ELSE 0

\* The side on which hi - lo falls of t for the floats of the decimals
\* hi / 10^k, lo / 10^k and t / 10^k with hi - lo = t > 0.
FloatTie(hi, lo, t, k) ==
    TieSide(FloatErr(hi, k), ExponentOf(hi, k), FloatErr(lo, k), ExponentOf(lo, k),
            RoundErr(t, k), Exponent(t, k), Pow10(k),
            IF IsPowerOfTwo(t, k) THEN 1 ELSE 2, SignificandOdd(t, k))

\* The side on which abs(a - b) falls of t, for the floats of the decimals
\* a / 10^k, b / 10^k and t / 10^k (t > 0): 1 above, -1 below, 0 equal.
FloatCompare(a, b, t, k) ==
    IF Abs(a - b) # t THEN Sign(Abs(a - b) - t)
    ELSE FloatTie(Larger(a, b), Smaller(a, b), t, k)

\* n / 10^k is a double: a whole number of 1 / 2^k.
IsExact(n, k) == n % 5^k = 0

\* No distance of the inputs sits on a threshold.
NoTies == [below |-> {}, above |-> {}]

\* The ways pow() can round the ties of a set.
TieChoices(ties) ==
    {c \in [below : SUBSET ties, above : SUBSET ties] : c.below \cap c.above = {}}

\* A tie: the two positions, the comparison and its threshold.
TieKey(p, q, name, t) == <<{p, q}, name, t>>

\* The side pow() gives a tie: -1 below, 1 above, 0 on the threshold.
PowSide(key) ==
    IF key \in pow_ties.below THEN -1
    ELSE IF key \in pow_ties.above THEN 1
    ELSE 0

\* (p[1]-q[1])**2 + (p[2]-q[2])**2 + (p[3]-q[3])**2 of the decimals.
SumOfSquares(p, q) ==
    (p[1] - q[1]) * (p[1] - q[1]) + (p[2] - q[2]) * (p[2] - q[2])
        + (p[3] - q[3]) * (p[3] - q[3])

\* The axes on which two positions differ.
DifferingAxes(p, q) == {i \in 1..3 : p[i] # q[i]}

\* Every coordinate that enters a difference is a double.
ExactDifferences(p, q, k) ==
    \A i \in DifferingAxes(p, q) : IsExact(p[i], k) /\ IsExact(q[i], k)

\* The distance between p and q against t is a tie that pow() decides.
IsPowTie(p, q, t, k) ==
    /\ SumOfSquares(p, q) = t * t
    /\ Cardinality(DifferingAxes(p, q)) > 1
    /\ ~ExactDifferences(p, q, k)

\* The side of the distance between p and q of t when the decimals give
\* the distance t; axes are the axes on which p and q differ.  On one axis
\* the distance is the difference on it.
TiedDistance(p, q, t, k, name, axes) ==
    IF axes = {} THEN 0
    ELSE IF Cardinality(axes) = 1
    THEN FloatCompare(p[CHOOSE i \in axes : TRUE], q[CHOOSE i \in axes : TRUE], t, k)
    ELSE IF ExactDifferences(p, q, k) THEN 0
    ELSE PowSide(TieKey(p, q, name, t))

\* The side on which the distance between p and q falls of t >= 0, all in
\* 1 / 10^k: 1 above, -1 below, 0 equal.
DistanceSide(p, q, t, k, name) ==
    IF SumOfSquares(p, q) # t * t THEN Sign(SumOfSquares(p, q) - t * t)
    ELSE TiedDistance(p, q, t, k, name, DifferingAxes(p, q))

\* The doubles around the decimal d / 10^k (d > 0) are numbered from the
\* highest that is not above it, which is double 0; FloorOdd says the
\* significand of double 0 is odd.
FloorOdd(d, k) == (Scaled(d, k, 2 * Pow10(k)) \div Pow10(k)) % 2 = 1
Offsets == -3..3

\* Rounding to nearest, ties to even: a number rounds to double j or higher
\* when it is above the middle of doubles j - 1 and j, or on it with j
\* even; side is the sign of the number less that middle.
Reaches(side, j, odd) == side > 0 \/ (side = 0 /\ ((j % 2 = 1) <=> odd))

\* The sign of float(hi / 10^k) - float(lo / 10^k) less the middle of
\* doubles j - 1 and j around the decimal (hi - lo) / 10^k.
DifferenceSide(hi, lo, k, j) ==
    SignOfSum(<<<<2 * Scaled(hi - lo, k, Pow10(k)) - (2 * j - 1) * Pow10(k), 0>>,
                <<2 * FloatErr(hi, k), ExponentOf(hi, k) - Exponent(hi - lo, k)>>,
                <<-2 * FloatErr(lo, k), ExponentOf(lo, k) - Exponent(hi - lo, k)>>>>)

\* float(m / 10^k) * 0.3, before it is rounded, reaches double j among
\* those around the decimal d / 10^k = 0.3 * m / 10^k.  The float 0.3 is
\* 0.3 - 0.2 / 2^54.
ProductReaches(m, d, k, j) ==
    Reaches(SignOfSum(<<<<10 * Scaled(d, k, Pow10(k)) - (2 * j - 1) * 5 * Pow10(k), 0>>,
                        <<3 * RoundErr(m, k), Exponent(m, k) - Exponent(d, k)>>,
                        <<-2 * m, -2 - Exponent(d, k)>>,
                        <<-2 * RoundErr(m, k), Exponent(m, k) - Exponent(d, k) - 54>>>>),
            j, FloorOdd(d, k))

\* The double that float(m / 10^k) * 0.3 rounds to: the highest it reaches.
ProductOffset(m, d, k) ==
    CHOOSE j \in Offsets : \A i \in Offsets : ProductReaches(m, d, k, i) <=> i <= j

\* The side of float(hi) - float(lo) of double j; odd is FloorOdd of the
\* decimal hi - lo.
DifferenceCompare(hi, lo, k, j, odd) ==
    IF ~Reaches(DifferenceSide(hi, lo, k, j), j, odd) THEN -1
    ELSE IF Reaches(DifferenceSide(hi, lo, k, j + 1), j + 1, odd) THEN 1
    ELSE 0

\* The side on which abs(a - b) falls of m * 0.3, for the floats of the
\* decimals a / 10^k, b / 10^k, m / 10^k with 10 * abs(a - b) = 3 * m > 0.
ProductCompare(a, b, m, k) ==
    IF IsExact(a, k) /\ IsExact(b, k) THEN 0
    ELSE DifferenceCompare(Larger(a, b), Smaller(a, b), k,
                           ProductOffset(m, Abs(a - b), k), FloorOdd(Abs(a - b), k))

(***************************************************************************)
(* BaselineComparator._reset_changes                                       *)
(***************************************************************************)
_reset_changes ==
    [bom |-> <<>>, geometry |-> <<>>, metadata |-> <<>>, differences |-> <<>>,
     components_added |-> <<>>, components_removed |-> <<>>,
     components_modified |-> <<>>]

(***************************************************************************)
(* Topology diff messages (compare_topology builds them, _analyze_impact   *)
(* scans them).                                                            *)
(*   "Encombrement: d1 -> d2"       [kind |-> "Encombrement", d1, d2]      *)
(*   the joined hole messages       [kind |-> "holes", shown, more]        *)
(* shown is the sequence of hole messages the string holds and more the    *)
(* number in its "(+N autres)" suffix, 0 when it has none.                 *)
(***************************************************************************)
EnvelopeDiff(d1, d2) == [kind |-> "Encombrement", d1 |-> d1, d2 |-> d2]
HolesDiff(shown, more) == [kind |-> "holes", shown |-> shown, more |-> more]

\* `word in diff`
Contains(diff, word) ==
    IF diff.kind = "Encombrement"
    THEN word = "Encombrement"
    ELSE \E i \in 1..Len(diff.shown) : diff.shown[i].tag = word

(***************************************************************************)
(* _compare_interfaces (src/MCP_STEP.py)                                   *)
(***************************************************************************)
\* make_key: the sorted pair of component names, then the type.
\* Mutant of make_key: the two names are not sorted.
make_key_Unsorted(iface) == <<iface.component1, iface.component2, iface.type>>

make_key(iface) ==
    IF NameRank(iface.component1) <= NameRank(iface.component2)
    THEN <<iface.component1, iface.component2, iface.type>>
    ELSE <<iface.component2, iface.component1, iface.type>>

\* {make_key(iface): iface for iface in interfaces}: a later interface
\* replaces an earlier one with the same key.
IfaceKeys(interfaces) == {make_key(interfaces[i]) : i \in 1..Len(interfaces)}
IfaceDict(interfaces) ==
    [k \in IfaceKeys(interfaces) |->
        interfaces[CHOOSE i \in 1..Len(interfaces) :
                      /\ make_key(interfaces[i]) = k
                      /\ \A j \in (i+1)..Len(interfaces) : make_key(interfaces[j]) # k]]

\* iface.get('distance', 0)
GetDistance(iface) == IF "distance" \in DOMAIN iface THEN iface.distance ELSE 0

\* 1.0 on a distance, in hundredths: a contact or proximity interface is
\* modified when abs(dist1 - dist2) > 1.0.
DistanceDelta == 100

\* Mutant of IfaceChangeTexts: only a distance that went down by more than
\* DistanceDelta is a change.
IfaceChangeTexts_OneSided(iface1, iface2) ==
    (IF iface1.type = "fastening" /\ iface1.fastener_count # iface2.fastener_count
     THEN <<[tag |-> "Nombre de fixations",
             old |-> iface1.fastener_count, new |-> iface2.fastener_count]>>
     ELSE <<>>)
    \o
    (IF iface1.type = "fastening" /\ iface1.fastener_diameter # iface2.fastener_diameter
     THEN <<[tag |-> "Diametre",
             old |-> iface1.fastener_diameter, new |-> iface2.fastener_diameter]>>
     ELSE <<>>)
    \o
    (IF /\ iface1.type \in {"contact", "proximity"}
        /\ GetDistance(iface1) >= GetDistance(iface2)
        /\ FloatCompare(GetDistance(iface1), GetDistance(iface2), DistanceDelta, 2) > 0
     THEN <<[tag |-> "Distance",
             old |-> GetDistance(iface1), new |-> GetDistance(iface2)]>>
     ELSE <<>>)

\* The change texts of a key present in both lists.
IfaceChangeTexts(iface1, iface2) ==
    (IF iface1.type = "fastening" /\ iface1.fastener_count # iface2.fastener_count
     THEN <<[tag |-> "Nombre de fixations",
             old |-> iface1.fastener_count, new |-> iface2.fastener_count]>>
     ELSE <<>>)
    \o
    (IF iface1.type = "fastening" /\ iface1.fastener_diameter # iface2.fastener_diameter
     THEN <<[tag |-> "Diametre",
             old |-> iface1.fastener_diameter, new |-> iface2.fastener_diameter]>>
     ELSE <<>>)
    \o
    (IF /\ iface1.type \in {"contact", "proximity"}
        /\ FloatCompare(GetDistance(iface1), GetDistance(iface2), DistanceDelta, 2) > 0
     THEN <<[tag |-> "Distance",
             old |-> GetDistance(iface1), new |-> GetDistance(iface2)]>>
     ELSE <<>>)

\* {**iface2, 'change_description': ..., 'previous_state': iface1}
ModifiedRecord(iface1, iface2) ==
    [f \in DOMAIN iface2 \cup {"change_description", "previous_state"} |->
        IF f = "change_description" THEN IfaceChangeTexts(iface1, iface2)
        ELSE IF f = "previous_state" THEN iface1
        ELSE iface2[f]]

\* Mutant of _compare_interfaces: of the interfaces of the first list that
\* share a key the first is kept, and the last of the second list.
_compare_interfaces_FirstOfOld(ifaces1, ifaces2, ordAdded, ordRemoved, ordCommon) ==
    LET ifaces1_dict ==
            [k \in IfaceKeys(ifaces1) |->
                ifaces1[CHOOSE i \in 1..Len(ifaces1) :
                           /\ make_key(ifaces1[i]) = k
                           /\ \A j \in 1..(i - 1) : make_key(ifaces1[j]) # k]]
        ifaces2_dict == IfaceDict(ifaces2)
        changed == SelectSeq(ordCommon,
                      LAMBDA k : IfaceChangeTexts(ifaces1_dict[k], ifaces2_dict[k]) # <<>>)
    IN  [added    |-> [i \in 1..Len(ordAdded) |-> ifaces2_dict[ordAdded[i]]],
         removed  |-> [i \in 1..Len(ordRemoved) |-> ifaces1_dict[ordRemoved[i]]],
         modified |-> [i \in 1..Len(changed) |->
                          ModifiedRecord(ifaces1_dict[changed[i]], ifaces2_dict[changed[i]])]]

\* ordAdded, ordRemoved, ordCommon: the iteration orders of keys2 - keys1,
\* keys1 - keys2 and keys1 & keys2.
_compare_interfaces(ifaces1, ifaces2, ordAdded, ordRemoved, ordCommon) ==
    LET ifaces1_dict == IfaceDict(ifaces1)
        ifaces2_dict == IfaceDict(ifaces2)
        changed == SelectSeq(ordCommon,
                      LAMBDA k : IfaceChangeTexts(ifaces1_dict[k], ifaces2_dict[k]) # <<>>)
    IN  [added    |-> [i \in 1..Len(ordAdded) |-> ifaces2_dict[ordAdded[i]]],
         removed  |-> [i \in 1..Len(ordRemoved) |-> ifaces1_dict[ordRemoved[i]]],
         modified |-> [i \in 1..Len(changed) |->
                          ModifiedRecord(ifaces1_dict[changed[i]], ifaces2_dict[changed[i]])]]

(***************************************************************************)
(* _analyze_impact (src/MCP_STEP.py)                                       *)
(***************************************************************************)
\* The (component, diff) pairs of `for item in differences: for diff in
\* item['differences']`, in order.
RECURSIVE FlattenDiffs(_)
FlattenDiffs(differences) ==
    IF differences = <<>> THEN <<>>
    ELSE LET item == Head(differences)
         IN  [i \in 1..Len(item.differences) |->
                 [component |-> item.component, issue |-> item.differences[i]]]
             \o FlattenDiffs(Tail(differences))

\* The branch of the if/elif chain a diff takes.
DiffCategory(diff) ==
    IF Contains(diff, "Encombrement") THEN "clash"
    ELSE IF Contains(diff, "Deplace") \/ Contains(diff, "Supprime") THEN "assembly"
    ELSE IF Contains(diff, "Modifie") THEN "retrofit"
    ELSE "none"

TopologyRisks(differences, category, severity) ==
    LET hits == SelectSeq(FlattenDiffs(differences),
                          LAMBDA p : DiffCategory(p.issue) = category)
    IN  [i \in 1..Len(hits) |->
            [component |-> hits[i].component, issue |-> hits[i].issue,
             severity |-> severity]]

BomChanges(chg) ==
    [i \in 1..Len(chg.components_removed) |->
        [type |-> "removed", component |-> chg.components_removed[i].name,
         severity |-> "critical"]]
    \o
    [i \in 1..Len(chg.components_added) |->
        [type |-> "added", component |-> chg.components_added[i].name,
         severity |-> "major"]]

\* Mutant of RemovedInterfaceRisk: a removed fastening rated like any other
\* removed interface.
RemovedInterfaceRisk_AllMajor(iface) ==
    [type |-> "removed_interface",
     components |-> <<iface.component1, iface.component2>>,
     issue |-> [tag |-> "Interface supprimee", type |-> iface.type],
     severity |-> "major"]

RemovedInterfaceRisk(iface) ==
    IF iface.type = "fastening"
    THEN [type |-> "removed_fastening",
          components |-> <<iface.component1, iface.component2>>,
          issue |-> [tag |-> "Fixation supprimee", count |-> iface.fastener_count,
                     diameter |-> iface.fastener_diameter],
          severity |-> "critical"]
    ELSE [type |-> "removed_interface",
          components |-> <<iface.component1, iface.component2>>,
          issue |-> [tag |-> "Interface supprimee", type |-> iface.type],
          severity |-> "major"]

\* Mutant of ModifiedInterfaceRisk: every modified interface rated minor.
ModifiedInterfaceRisk_AllMinor(iface) ==
    [type |-> "modified_interface",
     components |-> <<iface.component1, iface.component2>>,
     issue |-> iface.change_description,
     severity |-> "minor"]

ModifiedInterfaceRisk(iface) ==
    [type |-> "modified_interface",
     components |-> <<iface.component1, iface.component2>>,
     issue |-> iface.change_description,
     severity |-> IF iface.type = "fastening" THEN "major" ELSE "minor"]

\* `if interface_changes:` is false for None.
InterfaceRisks(ichg) ==
    IF ichg = None THEN <<>>
    ELSE [i \in 1..Len(ichg.removed) |-> RemovedInterfaceRisk(ichg.removed[i])]
         \o
         [i \in 1..Len(ichg.modified) |-> ModifiedInterfaceRisk(ichg.modified[i])]

ImpactReport(chg, ichg) ==
    [clash_risks     |-> TopologyRisks(chg.differences, "clash", "critical"),
     assembly_risks  |-> TopologyRisks(chg.differences, "assembly", "critical"),
     retrofit_risks  |-> TopologyRisks(chg.differences, "retrofit", "major"),
     bom_changes     |-> BomChanges(chg),
     interface_risks |-> InterfaceRisks(ichg)]

\* Mutant of ImpactLevel: an added component is looked at before a removed one.
ImpactLevel_AddedFirst(impact_report, chg) ==
    IF impact_report.interface_risks # <<>>
    THEN IF \E i \in 1..Len(impact_report.interface_risks) :
                impact_report.interface_risks[i].severity = "critical"
         THEN "critical_interface"
         ELSE IF impact_report.clash_risks # <<>> THEN "critical_clash"
         ELSE "major_interface"
    ELSE IF impact_report.clash_risks # <<>> THEN "critical_clash"
    ELSE IF impact_report.assembly_risks # <<>> THEN "critical_assembly"
    ELSE IF chg.components_added # <<>> THEN "major_bom"
    ELSE IF chg.components_removed # <<>> THEN "critical_missing"
    ELSE IF impact_report.retrofit_risks # <<>> THEN "major_retrofit"
    ELSE IF chg.differences # <<>> THEN "minor_geometry"
    ELSE "none"

\* "Determine overall impact level"
ImpactLevel(impact_report, chg) ==
    IF impact_report.interface_risks # <<>>
    THEN IF \E i \in 1..Len(impact_report.interface_risks) :
                impact_report.interface_risks[i].severity = "critical"
         THEN "critical_interface"
         ELSE IF impact_report.clash_risks # <<>> THEN "critical_clash"
         ELSE "major_interface"
    ELSE IF impact_report.clash_risks # <<>> THEN "critical_clash"
    ELSE IF impact_report.assembly_risks # <<>> THEN "critical_assembly"
    ELSE IF chg.components_removed # <<>> THEN "critical_missing"
    ELSE IF impact_report.retrofit_risks # <<>> THEN "major_retrofit"
    ELSE IF chg.components_added # <<>> THEN "major_bom"
    ELSE IF chg.differences # <<>> THEN "minor_geometry"
    ELSE "none"

ImpactMessage(level) ==
    CASE level = "critical_interface" -> "Modifications critiques des interfaces d'assemblage"
      [] level = "critical_clash"     -> "Risques de collision detectes"
      [] level = "major_interface"    -> "Modifications des interfaces d'assemblage"
      [] level = "critical_assembly"  -> "Problemes d'assemblage detectes"
      [] level = "critical_missing"   -> "Composants manquants"
      [] level = "major_retrofit"     -> "Modifications fonctionnelles majeures"
      [] level = "major_bom"          -> "Ajouts significatifs a la BOM"
      [] level = "minor_geometry"     -> "Changements geometriques mineurs"
      [] OTHER                        -> "Aucun changement significatif"

_analyze_impact(chg, ichg) ==
    LET impact_report == ImpactReport(chg, ichg)
        impact_level == ImpactLevel(impact_report, chg)
    IN  [level   |-> impact_level,
         message |-> ImpactMessage(impact_level),
         details |-> impact_report,
         statistics |->
            [clash_risks     |-> Len(impact_report.clash_risks),
             assembly_risks  |-> Len(impact_report.assembly_risks),
             retrofit_risks  |-> Len(impact_report.retrofit_risks),
             bom_changes     |-> Len(impact_report.bom_changes),
             interface_risks |-> Len(impact_report.interface_risks)]]

(***************************************************************************)
(* ConfigurationManager._find_aligned_holes (src/config_manager.py)        *)
(* A hole is [d, x, y, z]: d in thousandths, x, y, z in tenths.            *)
(***************************************************************************)
Hole(d, x, y, z) == [d |-> d, x |-> x, y |-> y, z |-> z]

\* The place of a hole.
PlaceOf(h) == <<h.x, h.y, h.z>>

\* 0.1 on a diameter, in thousandths.
DiameterTolerance == 100
\* tolerance=2.0 on a position, in tenths.
AlignTolerance == 20

\* Number of true values in a list of Booleans (Python's sum).
CountTrue(bs) == Cardinality({i \in 1..Len(bs) : bs[i]})

\* dx < tolerance, for dx = abs(x1 - x2).
AxisAligned(x1, x2) == FloatCompare(x1, x2, AlignTolerance, 1) < 0

\* abs(h1['d'] - h2['d']) > 0.1
DiameterDiffers(h1, h2) == FloatCompare(h1.d, h2.d, DiameterTolerance, 3) > 0

\* dist_3d < tolerance * 2
Dist3dInRange(h1, h2) ==
    DistanceSide(PlaceOf(h1), PlaceOf(h2), AlignTolerance * 2, 1, "dist_3d") < 0

\* Mutant of HolesAligned: the 3D separation is not looked at.
HolesAligned_NoSeparation(h1, h2) ==
    LET aligned_axes == CountTrue(<<AxisAligned(h1.x, h2.x), AxisAligned(h1.y, h2.y),
                                    AxisAligned(h1.z, h2.z)>>)
    IN  /\ ~DiameterDiffers(h1, h2)
        /\ aligned_axes >= 2

\* Mutant of HolesAligned: the diameter test is one-sided.
HolesAligned_OneSided(h1, h2) ==
    LET aligned_axes == CountTrue(<<AxisAligned(h1.x, h2.x), AxisAligned(h1.y, h2.y),
                                    AxisAligned(h1.z, h2.z)>>)
    IN  /\ ~(h1.d >= h2.d /\ DiameterDiffers(h1, h2))
        /\ aligned_axes >= 2
        /\ Dist3dInRange(h1, h2)

\* The test of the inner loop: h2 is appended for h1.
HolesAligned(h1, h2) ==
    LET aligned_axes == CountTrue(<<AxisAligned(h1.x, h2.x), AxisAligned(h1.y, h2.y),
                                    AxisAligned(h1.z, h2.z)>>)
    IN  /\ ~DiameterDiffers(h1, h2)
        /\ aligned_axes >= 2
        /\ Dist3dInRange(h1, h2)

\* The indices i of holes1 that find a match, each with the index of the
\* first hole of holes2 that passes the test (`break`).
AlignedIndices(holes1, holes2) ==
    LET hit(i) == {j \in 1..Len(holes2) : HolesAligned(holes1[i], holes2[j])}
        matched == SelectSeq([i \in 1..Len(holes1) |-> i], LAMBDA i : hit(i) # {})
    IN  [k \in 1..Len(matched) |->
            <<matched[k], CHOOSE j \in hit(matched[k]) : \A j2 \in hit(matched[k]) : j <= j2>>]

_find_aligned_holes(holes1, holes2) ==
    LET idx == AlignedIndices(holes1, holes2)
    IN  [k \in 1..Len(idx) |-> <<holes1[idx[k][1]], holes2[idx[k][2]]>>]

(***************************************************************************)
(* ConfigurationManager._analyze_component_pair (src/config_manager.py)    *)
(* A component is the record of its geometric properties; a key the dict   *)
(* lacks is a field the record lacks, an empty dict a record without       *)
(* fields.  dims, center_of_gravity and the distance of an interface are   *)
(* in hundredths.                                                          *)
(***************************************************************************)
\* comp.get('unique_name', comp['name']): the default, comp['name'], is
\* evaluated before .get is called and raises KeyError when the key is
\* missing, also when unique_name is there.
DisplayName(comp) ==
    IF "name" \notin DOMAIN comp THEN KeyError
    ELSE IF "unique_name" \in DOMAIN comp THEN comp.unique_name
    ELSE comp.name

\* `not comp.get('bbox', {})`: the key is missing or the dict is empty.
NoBbox(comp) == "bbox" \notin DOMAIN comp \/ DOMAIN comp.bbox = {}

\* comp.get('center_of_gravity', [0, 0, 0])
CenterOf(comp) ==
    IF "center_of_gravity" \in DOMAIN comp THEN comp.center_of_gravity ELSE <<0, 0, 0>>

\* comp.get('features_signature', {}).get('holes', [])
HolesOf(comp) ==
    IF "features_signature" \in DOMAIN comp /\ "holes" \in DOMAIN comp.features_signature
    THEN comp.features_signature.holes
    ELSE <<>>

\* The square of the distance between the centers.
Distance2(c1, c2) == SumOfSquares(CenterOf(c1), CenterOf(c2))

\* max(bbox1['dims'] + bbox2['dims'])
MaxBboxSize(c1, c2) ==
    LET all == c1.bbox.dims \o c2.bbox.dims
    IN  CHOOSE m \in Range(all) : \A v \in Range(all) : v <= m

\* The integer part of the square root of n.
RECURSIVE ISqrt(_)
ISqrt(n) ==
    IF n < 2 THEN n
    ELSE LET r == 2 * ISqrt(n \div 4)
         IN  IF (r + 1) * (r + 1) <= n THEN r + 1 ELSE r

\* The integer nearest to the square root of n: the root is past the half
\* when n is past r * r + r.
NearerRoot(n, r) == IF n - r * r > r THEN r + 1 ELSE r
RoundSqrt(n) == NearerRoot(n, ISqrt(n))

\* round(distance, 2) of the distance between the centers.
RoundedDistance(c1, c2) == RoundSqrt(Distance2(c1, c2))

\* max(diameters.keys(), key=lambda d: len(diameters[d])): the diameter of
\* the first pair whose diameter has the most pairs.
\* Mutant of MainDiameter: the diameter of the first pair.
MainDiameter_First(aligned_holes) == aligned_holes[1][1].d

MainDiameter(aligned_holes) ==
    LET count(d) == Cardinality({k \in 1..Len(aligned_holes) : aligned_holes[k][1].d = d})
        best == {k \in 1..Len(aligned_holes) :
                    \A k2 \in 1..Len(aligned_holes) :
                        count(aligned_holes[k2][1].d) <= count(aligned_holes[k][1].d)}
    IN  aligned_holes[CHOOSE k \in best : \A k2 \in best : k <= k2][1].d

\* The side on which the distance between p and q falls of 0.3 * m, for
\* m >= 0.  r is the whole part of the distance and j / 10 what the
\* threshold has above r.  On a tie the product m * 0.3 is rounded as well
\* as the distance; the side is pow_ties' when several axes differ, unless
\* every number is a double.
ContactAt(p, q, m, d2, r) ==
    IF r * r = d2
    THEN IF 3 * m # 10 * r THEN Sign(10 * r - 3 * m)
         ELSE IF ExactDifferences(p, q, 2) THEN 0
         ELSE IF Cardinality(DifferingAxes(p, q)) = 1
         THEN ProductCompare(p[CHOOSE i \in DifferingAxes(p, q) : TRUE],
                             q[CHOOSE i \in DifferingAxes(p, q) : TRUE], m, 2)
         ELSE PowSide(TieKey(p, q, "contact", m))
    ELSE IF 3 * m - 10 * r >= 10 THEN -1
    ELSE IF 3 * m - 10 * r <= 0 THEN 1
    ELSE Sign(100 * (d2 - r * r) - (3 * m - 10 * r) * (20 * r + 3 * m - 10 * r))
ContactSide(p, q, m) == ContactAt(p, q, m, SumOfSquares(p, q), ISqrt(SumOfSquares(p, q)))

\* The distance is as the root of its square in decimals.
ContactTie(p, q, m) ==
    LET r == ISqrt(SumOfSquares(p, q))
    IN  r * r = SumOfSquares(p, q) /\ 10 * r = 3 * m

\* distance > max_bbox_size * 2
TooFar(c1, c2) ==
    LET m == MaxBboxSize(c1, c2)
    IN  m < 0 \/ DistanceSide(CenterOf(c1), CenterOf(c2), 2 * m, 2, "far") > 0
\* distance < max_bbox_size * 0.3
ContactRange(c1, c2) ==
    LET m == MaxBboxSize(c1, c2)
    IN  m >= 0 /\ ContactSide(CenterOf(c1), CenterOf(c2), m) < 0
\* distance < max_bbox_size
ProximityRange(c1, c2) ==
    LET m == MaxBboxSize(c1, c2)
    IN  m >= 0 /\ DistanceSide(CenterOf(c1), CenterOf(c2), m, 2, "proximity") < 0

\* The interface records (the description text repeats the count, the
\* diameter or the distance and is left out).
Position(x, y, z) == [x |-> x, y |-> y, z |-> z]
\* Mutant of FasteningIface: the severity follows the number of fasteners.
FasteningIface_ByCount(c1, c2, e1, e2, count, diameter, positions) ==
    [type |-> "fastening", component1 |-> c1, component2 |-> c2,
     entry1 |-> e1, entry2 |-> e2,
     fastener_count |-> count, fastener_diameter |-> diameter,
     fastener_positions |-> positions,
     severity |-> IF count >= 2 THEN "critical" ELSE "major"]

FasteningIface(c1, c2, e1, e2, count, diameter, positions) ==
    [type |-> "fastening", component1 |-> c1, component2 |-> c2,
     entry1 |-> e1, entry2 |-> e2,
     fastener_count |-> count, fastener_diameter |-> diameter,
     fastener_positions |-> positions,
     severity |-> "critical"]
ContactIface(c1, c2, e1, e2, distance) ==
    [type |-> "contact", component1 |-> c1, component2 |-> c2,
     entry1 |-> e1, entry2 |-> e2, distance |-> distance, severity |-> "major"]
ProximityIface(c1, c2, e1, e2, distance) ==
    [type |-> "proximity", component1 |-> c1, component2 |-> c2,
     entry1 |-> e1, entry2 |-> e2, distance |-> distance, severity |-> "minor"]

\* Mutant of _analyze_component_pair: the contact test uses the proximity
\* range, so that a pair in the proximity range is reported as a contact.
_analyze_component_pair_WideContact(entry1, c1, entry2, c2) ==
    IF "name" \notin DOMAIN c1 \/ "name" \notin DOMAIN c2 THEN KeyError
    ELSE IF NoBbox(c1) \/ NoBbox(c2) THEN None
    ELSE IF TooFar(c1, c2) THEN None
    ELSE LET aligned_holes == _find_aligned_holes(HolesOf(c1), HolesOf(c2))
         IN  IF aligned_holes # <<>>
             THEN FasteningIface(DisplayName(c1), DisplayName(c2), entry1, entry2,
                      Len(aligned_holes), MainDiameter(aligned_holes),
                      [k \in 1..Len(aligned_holes) |->
                          Position(aligned_holes[k][1].x, aligned_holes[k][1].y,
                                   aligned_holes[k][1].z)])
             ELSE IF ProximityRange(c1, c2)
             THEN ContactIface(DisplayName(c1), DisplayName(c2), entry1, entry2,
                               RoundedDistance(c1, c2))
             ELSE None

\* The result is the interface, None, or KeyError when the lookup of a
\* name raised (lines 557-558, before anything else).
_analyze_component_pair(entry1, c1, entry2, c2) ==
    IF "name" \notin DOMAIN c1 \/ "name" \notin DOMAIN c2 THEN KeyError
    ELSE IF NoBbox(c1) \/ NoBbox(c2) THEN None
    ELSE IF TooFar(c1, c2) THEN None
    ELSE LET aligned_holes == _find_aligned_holes(HolesOf(c1), HolesOf(c2))
         IN  IF aligned_holes # <<>>
             THEN FasteningIface(DisplayName(c1), DisplayName(c2), entry1, entry2,
                      Len(aligned_holes), MainDiameter(aligned_holes),
                      [k \in 1..Len(aligned_holes) |->
                          Position(aligned_holes[k][1].x, aligned_holes[k][1].y,
                                   aligned_holes[k][1].z)])
             ELSE IF ContactRange(c1, c2)
             THEN ContactIface(DisplayName(c1), DisplayName(c2), entry1, entry2,
                               RoundedDistance(c1, c2))
             ELSE IF ProximityRange(c1, c2)
             THEN ProximityIface(DisplayName(c1), DisplayName(c2), entry1, entry2,
                                 RoundedDistance(c1, c2))
             ELSE None

(***************************************************************************)
(* ConfigurationManager.analyze_interfaces (src/config_manager.py:507-529) *)
(* geometric_props is the sequence of the <<entry, props>> items of the    *)
(* dict, in insertion order.                                               *)
(***************************************************************************)
\* The index pairs <<i, j>>, first <= i < j <= n, in the order of the two
\* nested loops.
RECURSIVE IndexPairs(_, _)
IndexPairs(first, n) ==
    IF first >= n THEN <<>>
    ELSE [k \in 1..(n - first) |-> <<first, first + k>>] \o IndexPairs(first + 1, n)

\* What _analyze_component_pair gives for each pair of the loops; a pair
\* of one entry is left out (`continue`).
PairResults(geometric_props, pairs) ==
    [k \in 1..Len(pairs) |->
        IF geometric_props[pairs[k][1]][1] = geometric_props[pairs[k][2]][1] THEN None
        ELSE _analyze_component_pair(
                 geometric_props[pairs[k][1]][1], geometric_props[pairs[k][1]][2],
                 geometric_props[pairs[k][2]][1], geometric_props[pairs[k][2]][2])]

\* The interfaces found, in the order of the pairs; raised when a pair
\* raised KeyError, and then the function returns nothing.
FoundInterfaces(results) ==
    IF \E k \in 1..Len(results) : results[k] = KeyError
    THEN [raised |-> TRUE, interfaces |-> <<>>]
    ELSE [raised |-> FALSE, interfaces |-> SelectSeq(results, LAMBDA r : r # None)]

analyze_interfaces(geometric_props) ==
    FoundInterfaces(PairResults(geometric_props, IndexPairs(1, Len(geometric_props))))

(***************************************************************************)
(* BaselineComparator.compare_topology (src/baseline_comparator.py)        *)
(* geometric_properties is a dict from entry to properties: the sequence   *)
(* of its <<entry, props>> items, in insertion order.  A hole tuple        *)
(* (x, y, z, d) of the source is the hole record.                          *)
(***************************************************************************)
GeomKeys(geom) == {geom[i][1] : i \in 1..Len(geom)}
GeomGet(geom, entry) == geom[CHOOSE i \in 1..Len(geom) : geom[i][1] = entry][2]

\* props.get('bbox', {}).get('dims', [0,0,0])
DimsOf(props) ==
    IF "bbox" \in DOMAIN props /\ "dims" \in DOMAIN props.bbox
    THEN props.bbox.dims
    ELSE <<0, 0, 0>>

\* 0.1 on an extent, in hundredths.
EnvelopeTolerance == 10
\* abs(d1[i] - d2[i]) > 0.1 on one of the extents.
EnvelopeChanged(d1, d2) ==
    \/ FloatCompare(d1[1], d2[1], EnvelopeTolerance, 2) > 0
    \/ FloatCompare(d1[2], d2[2], EnvelopeTolerance, 2) > 0
    \/ FloatCompare(d1[3], d2[3], EnvelopeTolerance, 2) > 0

\* 0.5 on a position, in tenths.
PositionTolerance == 5
\* dist < 0.5
SamePosition(r, a) ==
    DistanceSide(PlaceOf(r), PlaceOf(a), PositionTolerance, 1, "dist") < 0

\* rd == ad
SameDiameter(r, a) == r.d = a.d

\* The hole messages.
ModifieMsg(r, a) == [tag |-> "Modifie", x |-> r.x, y |-> r.y, old |-> r.d, new |-> a.d]
DeplaceMsg(r, a) == [tag |-> "Deplace", d |-> r.d, x |-> a.x, y |-> a.y]
SupprimeMsg(r) == [tag |-> "Supprime", d |-> r.d, x |-> r.x, y |-> r.y]
AjouteMsg(a) == [tag |-> "Ajoute", d |-> a.d, x |-> a.x, y |-> a.y]

\* The index of the first element of a list that passes a test, 0 if none
\* does (a for loop that breaks at the first hit).
FirstIndex(Test(_), list) ==
    IF \E i \in 1..Len(list) : Test(list[i])
    THEN CHOOSE i \in 1..Len(list) :
            Test(list[i]) /\ \A j \in 1..(i - 1) : ~Test(list[j])
    ELSE 0

\* Mutant of Pop: the element stays in the list.
Pop_Keep(list, i) == list

\* list.pop(i)
Pop(list, i) == [k \in 1..(Len(list) - 1) |-> IF k < i THEN list[k] ELSE list[k + 1]]

\* Mutant of MatchFor: the same-diameter search comes before the position
\* search.
MatchFor_DiameterFirst(r, work_added) ==
    LET i == FirstIndex(LAMBDA a : SamePosition(r, a), work_added)
        j == FirstIndex(LAMBDA a : SameDiameter(r, a), work_added)
    IN  IF j # 0 THEN [msg |-> DeplaceMsg(r, work_added[j]), index |-> j]
        ELSE IF i # 0 THEN [msg |-> ModifieMsg(r, work_added[i]), index |-> i]
        ELSE [msg |-> SupprimeMsg(r), index |-> 0]

\* The body of `for r in removed`: the message for r and the index of the
\* added hole it consumes, 0 if it consumes none.
MatchFor(r, work_added) ==
    LET i == FirstIndex(LAMBDA a : SamePosition(r, a), work_added)
        j == FirstIndex(LAMBDA a : SameDiameter(r, a), work_added)
    IN  IF i # 0 THEN [msg |-> ModifieMsg(r, work_added[i]), index |-> i]
        ELSE IF j # 0 THEN [msg |-> DeplaceMsg(r, work_added[j]), index |-> j]
        ELSE [msg |-> SupprimeMsg(r), index |-> 0]

\* mapped_changes, for removed and work_added in the order the lists have.
RECURSIVE MappedChanges(_, _)
MappedChanges(removed, work_added) ==
    IF removed = <<>> THEN MapSeq(AjouteMsg, work_added)
    ELSE LET m == MatchFor(Head(removed), work_added)
         IN  <<m.msg>> \o
             MappedChanges(Tail(removed),
                           IF m.index = 0 THEN work_added ELSE Pop(work_added, m.index))

\* work_added as it is when the k-th removed hole is taken.
RECURSIVE WorkAddedAt(_, _, _)
WorkAddedAt(removed, work_added, k) ==
    IF k <= 1 THEN work_added
    ELSE LET m == MatchFor(Head(removed), work_added)
         IN  WorkAddedAt(Tail(removed),
                         IF m.index = 0 THEN work_added ELSE Pop(work_added, m.index),
                         k - 1)

\* The summary is shortened past MaxMessages messages, to PreviewLength.
MaxMessages == 10
PreviewLength == 5
\* Mutant of JoinedChanges: the summary is shortened past PreviewLength
\* messages.
JoinedChanges_AtPreview(mapped_changes) ==
    IF Len(mapped_changes) > PreviewLength
    THEN HolesDiff(SubSeq(mapped_changes, 1, PreviewLength),
                   Len(mapped_changes) - PreviewLength)
    ELSE HolesDiff(mapped_changes, 0)

JoinedChanges(mapped_changes) ==
    IF Len(mapped_changes) > MaxMessages
    THEN HolesDiff(SubSeq(mapped_changes, 1, PreviewLength),
                   Len(mapped_changes) - PreviewLength)
    ELSE HolesDiff(mapped_changes, 0)

\* diffs of one common component; ordRemoved and ordAdded are the orders of
\* list(set1 - set2) and list(set2 - set1).
ComponentDiffs(props1, props2, ordRemoved, ordAdded) ==
    LET d1 == DimsOf(props1)
        d2 == DimsOf(props2)
        set1 == Range(HolesOf(props1))
        set2 == Range(HolesOf(props2))
    IN  (IF EnvelopeChanged(d1, d2) THEN <<EnvelopeDiff(d1, d2)>> ELSE <<>>)
        \o (IF set1 # set2
            THEN <<JoinedChanges(MappedChanges(ordRemoved, ordAdded))>>
            ELSE <<>>)

\* Mutant of RemovedHoles: the holes of the second side are not taken out.
RemovedHoles_All(props1, props2) == Range(HolesOf(props1))

RemovedHoles(props1, props2) == Range(HolesOf(props1)) \ Range(HolesOf(props2))
AddedHoles(props1, props2) == Range(HolesOf(props2)) \ Range(HolesOf(props1))

\* The record of a component that has diffs (the description text repeats
\* the name and the diffs and is left out).
DifferenceRecord(name, entry, diffs) ==
    [component |-> name, entry |-> entry, differences |-> diffs]

\* The records compare_topology appends to changes['differences'];
\* ordCommon is the order of the set common_components, ordRemoved[entry]
\* and ordAdded[entry] the orders of the removed and added holes of entry.
compare_topology(b1, b2, ordCommon, ordRemoved, ordAdded) ==
    LET geom1 == b1.geometric_properties
        geom2 == b2.geometric_properties
        diffsOf(entry) == ComponentDiffs(GeomGet(geom1, entry), GeomGet(geom2, entry),
                                         ordRemoved[entry], ordAdded[entry])
        changed == SelectSeq(ordCommon, LAMBDA entry : diffsOf(entry) # <<>>)
    IN  [k \in 1..Len(changed) |->
            DifferenceRecord(GeomGet(geom1, changed[k]).name, changed[k],
                             diffsOf(changed[k]))]

\* The orders in which compare_topology can iterate its sets.
CommonEntries(b1, b2) ==
    GeomKeys(b1.geometric_properties) \cap GeomKeys(b2.geometric_properties)
HoleOrders(b1, b2, Side(_, _)) ==
    LET S(entry) == Side(GeomGet(b1.geometric_properties, entry),
                         GeomGet(b2.geometric_properties, entry))
    IN  {f \in [CommonEntries(b1, b2) ->
                    UNION {Orders(S(entry)) : entry \in CommonEntries(b1, b2)}] :
            \A entry \in CommonEntries(b1, b2) : f[entry] \in Orders(S(entry))}

(***************************************************************************)
(* BaselineComparator.compare_bom                                          *)
(***************************************************************************)
BomRecord(name, level, type, label_entry) ==
    [name |-> name, level |-> level, type |-> type, label_entry |-> label_entry]

\* {item['name']: item for item in bom}: a later item replaces an earlier
\* one of the same name.
BomNames(bom) == {bom[i].name : i \in 1..Len(bom)}
\* Mutant of BomDict: the first item of a name is kept.
BomDict_FirstWins(bom) ==
    [n \in BomNames(bom) |->
        bom[CHOOSE i \in 1..Len(bom) :
                /\ bom[i].name = n
                /\ \A j \in 1..Len(bom) : bom[j].name = n => i <= j]]

BomDict(bom) ==
    [n \in BomNames(bom) |->
        bom[CHOOSE i \in 1..Len(bom) :
                /\ bom[i].name = n
                /\ \A j \in 1..Len(bom) : bom[j].name = n => j <= i]]

\* sorted(names)
SortedNames(S) ==
    CHOOSE s \in Orders(S) : \A i, j \in 1..Len(s) : i < j => NameRank(s[i]) < NameRank(s[j])

\* changes_found of a common component
BomChangesFound(item1, item2) ==
    (IF item1.level # item2.level
     THEN <<[field |-> "niveau", old |-> item1.level, new |-> item2.level]>> ELSE <<>>)
    \o (IF item1.type # item2.type
        THEN <<[field |-> "type", old |-> item1.type, new |-> item2.type]>> ELSE <<>>)

BomModifiedRecord(item1, item2) ==
    [name |-> item1.name, label_entry |-> item1.label_entry,
     level |-> item2.level, type |-> item2.type,
     changes |-> BomChangesFound(item1, item2)]

\* The lists compare_bom appends to components_removed, components_added
\* and components_modified; ordCommon is the order of the set common.
compare_bom(b1, b2, ordCommon) ==
    LET bom1_dict == BomDict(b1.bom)
        bom2_dict == BomDict(b2.bom)
        removed == SortedNames(DOMAIN bom1_dict \ DOMAIN bom2_dict)
        added == SortedNames(DOMAIN bom2_dict \ DOMAIN bom1_dict)
        differs(n) == BomChangesFound(bom1_dict[n], bom2_dict[n]) # <<>>
        modified == SelectSeq(ordCommon, differs)
        asRecord(item) == BomRecord(item.name, item.level, item.type, item.label_entry)
    IN  [components_removed |-> [k \in 1..Len(removed) |-> asRecord(bom1_dict[removed[k]])],
         components_added |-> [k \in 1..Len(added) |-> asRecord(bom2_dict[added[k]])],
         components_modified |->
            [k \in 1..Len(modified) |->
                BomModifiedRecord(bom1_dict[modified[k]], bom2_dict[modified[k]])]]

CommonNames(b1, b2) == BomNames(b1.bom) \cap BomNames(b2.bom)

(***************************************************************************)
(* BaselineComparator.compare_geometry.  Volumes and areas are in          *)
(* hundredths.                                                             *)
(***************************************************************************)
\* baseline.get('component_registry', {})
RegistryOf(b) ==
    IF "component_registry" \in DOMAIN b THEN b.component_registry ELSE <<>>

\* 0.01 on a volume or an area, in ten-thousandths.
GeometryTolerance == 100

\* The parent_entry of a component that has no parent (None in the source,
\* tested by its falsity as the empty string is).
NoParent == ""

\* The while loop that walks up the hierarchy, from the state
\* (parent_entry, path_parts): the parts it ends with, or loops = TRUE when
\* it comes back to an entry it has already left (seen), from where it
\* repeats the same steps without end.
RECURSIVE WalkUp(_, _, _, _, _)
WalkUp(comp_reg1, parent_entry, component_name, path_parts, seen) ==
    IF parent_entry = NoParent \/ parent_entry \notin DOMAIN comp_reg1
    THEN [path_parts |-> path_parts, loops |-> FALSE]
    ELSE IF parent_entry \in seen
    THEN [path_parts |-> path_parts, loops |-> TRUE]
    ELSE LET parent_name == comp_reg1[parent_entry].name
         IN  WalkUp(comp_reg1, comp_reg1[parent_entry].parent_entry, component_name,
                    IF parent_name # "" /\ parent_name # component_name
                    THEN <<parent_name>> \o path_parts ELSE path_parts,
                    seen \cup {parent_entry})

\* full_path, as the list of the names '->' joins (one name: the bare
\* component name).
FullPath(comp_reg1, entry, component_name) ==
    IF entry \in DOMAIN comp_reg1
    THEN WalkUp(comp_reg1, comp_reg1[entry].parent_entry, component_name,
                <<component_name>>, {})
    ELSE [path_parts |-> <<component_name>>, loops |-> FALSE]

\* Mutant of GeometryChanged: the decimals are compared, and a delta of
\* 0.01 is a change.
GeometryChanged_AtTolerance(props1, props2) ==
    \/ Abs(props2.volume - props1.volume) >= GeometryTolerance
    \/ Abs(props2.surface_area - props1.surface_area) >= GeometryTolerance

\* abs(vol_diff) > 0.01 or abs(surf_diff) > 0.01
GeometryChanged(props1, props2) ==
    \/ FloatCompare(props2.volume, props1.volume, GeometryTolerance, 4) > 0
    \/ FloatCompare(props2.surface_area, props1.surface_area, GeometryTolerance, 4) > 0

\* The record holds the float differences vol2 - vol1 and surf2 - surf1, as
\* the decimals nearest to them.

GeometryRecord(component_name, full_path, entry, props1, props2) ==
    [component |-> component_name, full_path |-> full_path, entry |-> entry,
     volume_change |-> props2.volume - props1.volume,
     surface_change |-> props2.surface_area - props1.surface_area,
     volume_before |-> props1.volume, volume_after |-> props2.volume,
     surface_before |-> props1.surface_area, surface_after |-> props2.surface_area]

\* The records compare_geometry appends to changes['geometry'], entry by
\* entry of geom1; loops = TRUE when the path of an entry does not end, with
\* the records appended until then.
RECURSIVE GeometryFrom(_, _, _, _)
GeometryFrom(geom1, geom2, comp_reg1, i) ==
    IF i > Len(geom1) THEN [records |-> <<>>, loops |-> FALSE]
    ELSE LET entry == geom1[i][1]
             props1 == geom1[i][2]
         IN  IF entry \in GeomKeys(geom2) /\ GeometryChanged(props1, GeomGet(geom2, entry))
             THEN LET component_name ==
                          IF entry \in DOMAIN comp_reg1 THEN comp_reg1[entry].name
                          ELSE props1.name
                      path == FullPath(comp_reg1, entry, component_name)
                      rest == GeometryFrom(geom1, geom2, comp_reg1, i + 1)
                  IN  IF path.loops THEN [records |-> <<>>, loops |-> TRUE]
                      ELSE [records |->
                                <<GeometryRecord(component_name, path.path_parts, entry,
                                                 props1, GeomGet(geom2, entry))>>
                                \o rest.records,
                            loops |-> rest.loops]
             ELSE GeometryFrom(geom1, geom2, comp_reg1, i + 1)

\* baseline.get('geometric_properties', {})
GeometryOf(b) ==
    IF "geometric_properties" \in DOMAIN b THEN b.geometric_properties ELSE <<>>

compare_geometry(b1, b2) ==
    IF GeometryOf(b1) = <<>> \/ GeometryOf(b2) = <<>>
    THEN [records |-> <<>>, loops |-> FALSE]
    ELSE GeometryFrom(GeometryOf(b1), GeometryOf(b2), RegistryOf(b1), 1)

(***************************************************************************)
(* BaselineComparator.compare_metadata and generate_report                 *)
(***************************************************************************)
\* baseline.get('metadata', {}).get('schema', '')
SchemaOf(b) ==
    IF "metadata" \in DOMAIN b /\ "schema" \in DOMAIN b.metadata
    THEN b.metadata.schema ELSE ""

\* What compare_metadata appends to changes['metadata'].
compare_metadata(b1, b2) ==
    IF SchemaOf(b1) # SchemaOf(b2)
    THEN <<[tag |-> "Schema", old |-> SchemaOf(b1), new |-> SchemaOf(b2)]>>
    ELSE <<>>

\* total_changes of generate_report (the geometry records do not count).
TotalChanges(chg) ==
    Len(chg.components_added) + Len(chg.components_removed)
        + Len(chg.components_modified) + Len(chg.differences) + Len(chg.metadata)

\* The alert list generate_report files a diff under.
AlertOf(diff) ==
    IF Contains(diff, "Encombrement") THEN "clash"
    ELSE IF Contains(diff, "Deplace") \/ Contains(diff, "Supprime") THEN "interface"
    ELSE IF Contains(diff, "Modifie") \/ Contains(diff, "Ajoute") THEN "functional"
    ELSE "volume"

\* baseline.get('baseline_id', 'Unknown')
BaselineId(b) == IF "baseline_id" \in DOMAIN b THEN b.baseline_id ELSE "Unknown"

\* The report generate_report writes, None when it writes none.
generate_report(b1, b2, chg) ==
    LET diffs == Concat([k \in 1..Len(chg.differences) |-> chg.differences[k].differences])
        count(alert) == Cardinality({k \in 1..Len(diffs) : AlertOf(diffs[k]) = alert})
        impact_score ==
            IF chg.components_removed # <<>> THEN "CRITICAL_MISSING_PART"
            ELSE IF count("clash") > 0 THEN "CRITICAL_CLASH"
            ELSE IF count("interface") > 0 THEN "CRITICAL_INTERFACE"
            ELSE IF count("functional") > 0 THEN "MAJOR_FUNCTIONAL"
            ELSE IF count("volume") > 0 THEN "MINOR_GEOMETRY"
            ELSE IF chg.components_added # <<>> THEN "MAJOR_BOM"
            ELSE "NONE"
    IN  IF TotalChanges(chg) = 0 THEN None
        ELSE [baseline1 |-> BaselineId(b1), baseline2 |-> BaselineId(b2),
              impact_assessment |-> impact_score,
              summary |-> [total_changes |-> TotalChanges(chg),
                           clash_count |-> count("clash"),
                           interface_issues |-> count("interface"),
                           functional_changes |-> count("functional")],
              raw_changes |-> chg]

(***************************************************************************)
(* BaselineComparator.compare                                              *)
(***************************************************************************)
required_keys ==
    {"baseline_id", "timestamp", "file", "checksum", "bom", "geometric_properties"}

\* No required key is missing.
ValidBaseline(b) == required_keys \subseteq DOMAIN b

\* The change set after compare_bom and compare_geometry.
ChangesAfterGeometry(b1, b2, ordNames) ==
    LET bom == compare_bom(b1, b2, ordNames)
    IN  [_reset_changes EXCEPT
            !.components_removed = bom.components_removed,
            !.components_added = bom.components_added,
            !.components_modified = bom.components_modified,
            !.geometry = compare_geometry(b1, b2).records]

\* The change set after the four differs.
ChangesAfterDiffers(b1, b2, ordNames, ordCommon, ordRemoved, ordAdded) ==
    [ChangesAfterGeometry(b1, b2, ordNames) EXCEPT
        !.differences = compare_topology(b1, b2, ordCommon, ordRemoved, ordAdded),
        !.metadata = compare_metadata(b1, b2)]

(***************************************************************************)
(* Inputs of the impact pipeline (compare_step_files, MCP_STEP.py:187-200) *)
(***************************************************************************)
MaxIfaces == 2
MaxShown == 2

\* Interfaces as analyze_interfaces returns them.  The first two join the
\* same pair of names, in either order, with different fastener counts (two
\* instances of a part share its name); the contacts differ by two units of
\* distance.
IfaceSamples ==
    {FasteningIface("bracket", "panel", "0:1:1:1", "0:1:1:2", 2, 5000,
                    <<Position(0, 0, 0), Position(100, 0, 0)>>),
     FasteningIface("panel", "bracket", "0:1:1:3", "0:1:1:1", 3, 5000,
                    <<Position(0, 0, 0), Position(100, 0, 0), Position(200, 0, 0)>>),
     ContactIface("bracket", "cover", "0:1:1:1", "0:1:1:4", 500),
     ContactIface("bracket", "cover", "0:1:1:1", "0:1:1:4", 700)}
IfaceLists == SeqsUpTo(IfaceSamples, MaxIfaces)

\* Hole messages as compare_topology formats them (old and new diameter
\* for a modification, diameter and position for the others).
MsgModifie == [tag |-> "Modifie", x |-> 0, y |-> 0, old |-> 5000, new |-> 6000]
MsgDeplace == [tag |-> "Deplace", d |-> 4000, x |-> 500, y |-> 500]
MsgSupprime == [tag |-> "Supprime", d |-> 3000, x |-> 100, y |-> 0]
MsgAjoute == [tag |-> "Ajoute", d |-> 8000, x |-> 200, y |-> 0]
MsgSamples == <<MsgModifie, MsgDeplace, MsgSupprime, MsgAjoute>>

\* The message lists of a component: the samples of a nonempty set of at
\* most MaxShown tags, additions last as compare_topology appends them.
ShownSamples ==
    {SelectSeq(MsgSamples, LAMBDA m : m.tag \in T) :
        T \in {U \in SUBSET {"Modifie", "Deplace", "Supprime", "Ajoute"} :
                  U # {} /\ Cardinality(U) <= MaxShown}}

DimsA == <<4000, 1000, 1000>>
DimsB == <<4000, 1000, 2000>>
TopologyItem(diffs) ==
    [component |-> "bracket", entry |-> "0:1:1:1", differences |-> diffs]
DifferencesSamples ==
    {<<>>, <<TopologyItem(<<EnvelopeDiff(DimsA, DimsB)>>)>>,
     <<TopologyItem(<<EnvelopeDiff(DimsA, DimsB), HolesDiff(<<MsgAjoute>>, 0)>>)>>}
    \cup {<<TopologyItem(<<HolesDiff(sh, 0)>>)>> : sh \in ShownSamples}

ChangeSamples ==
    {[_reset_changes EXCEPT !.differences = df,
                            !.components_removed = rm,
                            !.components_added = ad] :
        df \in DifferencesSamples,
        rm \in {<<>>, <<BomRecord("panel", 1, "Part", "0:1:1:2")>>},
        ad \in {<<>>, <<BomRecord("cover", 1, "Part", "0:1:1:4")>>}}

(***************************************************************************)
(* Actions of the impact pipeline.                                         *)
(***************************************************************************)
\* interface_changes = _compare_interfaces(interfaces1, interfaces2)
\* (MCP_STEP.py:197), once compare() and both analyze_interfaces() have
\* returned.
CompareInterfaces ==
    /\ pc = "l197"
    /\ pc' = "l200"
    /\ LET keys1 == IfaceKeys(interfaces1)
           keys2 == IfaceKeys(interfaces2)
       IN  \E ordAdded \in Orders(keys2 \ keys1),
              ordRemoved \in Orders(keys1 \ keys2),
              ordCommon \in Orders(keys1 \cap keys2) :
              interface_changes' =
                  _compare_interfaces(interfaces1, interfaces2,
                                      ordAdded, ordRemoved, ordCommon)
    /\ UNCHANGED <<interfaces1, interfaces2, impact_analysis>>
    /\ UNCHANGED comparatorVars
    /\ UNCHANGED pairVars
    /\ UNCHANGED pow_ties

\* impact_analysis = _analyze_impact(comparator.changes, interface_changes)
\* (MCP_STEP.py:200), with the interface_changes line 197 has computed.
AnalyzeImpact ==
    /\ pc = "l200"
    /\ outcome = "ok"
    /\ pc' = "return"
    /\ impact_analysis' = _analyze_impact(changes, interface_changes)
    /\ UNCHANGED <<interfaces1, interfaces2, interface_changes>>
    /\ UNCHANGED comparatorVars
    /\ UNCHANGED pairVars
    /\ UNCHANGED pow_ties

NoBaseline == None
NoComponent == None

InitImpact ==
    /\ baseline1 = NoBaseline
    /\ baseline2 = NoBaseline
    /\ changes \in ChangeSamples
    /\ ran = <<>>
    /\ reports = <<>>
    /\ outcome = "ok"
    /\ calls = 0
    /\ called = "none"
    /\ baseline1_path = None
    /\ baseline2_path = None
    /\ pc = "l197"
    /\ iterated = NotRun
    /\ interfaces1 \in IfaceLists
    /\ interfaces2 \in IfaceLists
    /\ interface_changes = None
    /\ impact_analysis = None
    /\ comp1 = NoComponent
    /\ comp2 = NoComponent
    /\ interface = NotRun
    /\ aligned = NotRun
    /\ pow_ties = NoTies

NextImpact == CompareInterfaces \/ AnalyzeImpact

SpecImpact == InitImpact /\ [][NextImpact]_vars

(***************************************************************************)
(* Inputs and actions of interface inference                               *)
(* (analyze_interfaces, config_manager.py:513-527: one call of             *)
(* _analyze_component_pair per pair of components).                        *)
(***************************************************************************)
MaxPairHoles == 2

\* The geometric properties of a component (config_manager.py:407-414); the
\* envelope and the center are added to those that have them.
GeomProps(name, volume, surface_area, holes) ==
    [name |-> name, volume |-> volume, surface_area |-> surface_area,
     features_signature |-> [holes |-> holes]]
WithBbox(props, dims) == props @@ [bbox |-> [dims |-> dims]]
WithCenter(props, cog) == props @@ [center_of_gravity |-> cog]

Entry1 == "0:1:1:1"
Entry2 == "0:1:1:2"

\* First component: at the origin when it has a center, 40 or 10 units long.
PairHoles1 == {Hole(5000, 0, 0, 0), Hole(6000, 0, 0, 0)}
\* One hole of diameter 5 and a hole of diameter 6 extracted twice.
PairHolesMixed == <<Hole(5000, 0, 0, 0), Hole(6000, 0, 0, 0), Hole(6000, 0, 0, 0)>>
PairComps1 ==
    LET base == {GeomProps("bracket", 100000, 60000, hs) :
                    hs \in SeqsUpTo(PairHoles1, MaxPairHoles) \cup {PairHolesMixed}}
        boxed == base \cup {WithBbox(c, d) :
                    c \in base, d \in {<<4000, 1000, 1000>>, <<1000, 1000, 1000>>}}
    IN  boxed \cup {WithCenter(c, <<0, 0, 0>>) : c \in boxed}

\* Second component: 10 units long, its center 10, 12, 40, 80 or 81 units
\* away.  Its holes, against the hole of diameter 5 at the origin: 0.1 wider
\* and 1.9 off on two axes (aligned); 2 off on one axis (aligned); 2 off on
\* two axes (not aligned); 4 off on one axis (too far apart); diameter 6.
PairHoles2 ==
    {Hole(5100, 19, 19, 0), Hole(5000, 20, 0, 0), Hole(5000, 20, 20, 0),
     Hole(5000, 40, 0, 0), Hole(6000, 0, 0, 0)}
PairCenters2 ==
    {<<1000, 0, 0>>, <<600, 800, 0>>, <<1200, 0, 0>>, <<4000, 0, 0>>,
     <<8000, 0, 0>>, <<8100, 0, 0>>}
PairComps2 ==
    LET base == {GeomProps("panel", 100000, 60000, hs) :
                    hs \in SeqsUpTo(PairHoles2, MaxPairHoles)}
        boxed == base \cup {WithBbox(c, <<1000, 1000, 1000>>) : c \in base}
    IN  boxed \cup {WithCenter(c, g) : c \in boxed, g \in PairCenters2}

\* Pairs whose distance sits on a threshold, and a pair with an empty
\* envelope.  Sizes 7.0, 0.2, 2.0, 40.0 and 10.0 against centers 2.1, 0.2,
\* 2.0, 12.0 and 20.0 apart: on one axis the first two, on two axes the
\* others.
Boxed(name, size, cog) ==
    WithCenter(WithBbox(GeomProps(name, 100000, 60000, <<>>), <<size, size, size>>), cog)
TiePairs ==
    {<<Boxed("bracket", 700, <<70, 0, 0>>), Boxed("panel", 700, <<280, 0, 0>>)>>,
     <<Boxed("bracket", 20, <<10, 0, 0>>), Boxed("panel", 20, <<30, 0, 0>>)>>,
     <<Boxed("bracket", 200, <<10, 10, 0>>), Boxed("panel", 200, <<130, 170, 0>>)>>,
     <<Boxed("bracket", 4000, <<0, 0, 0>>), Boxed("panel", 1000, <<720, 960, 0>>)>>,
     <<Boxed("bracket", 1000, <<10, 10, 0>>), Boxed("panel", 1000, <<1210, 1610, 0>>)>>,
     <<GeomProps("bracket", 100000, 60000, <<>>) @@ [bbox |-> <<>>],
       Boxed("panel", 1000, <<0, 0, 0>>)>>}
PairSamples == (PairComps1 \X PairComps2) \cup TiePairs

\* The comparisons of a pair that pow() decides.
PairTies(c1, c2) ==
    IF NoBbox(c1) \/ NoBbox(c2) THEN {}
    ELSE LET p == CenterOf(c1)
             q == CenterOf(c2)
             m == MaxBboxSize(c1, c2)
         IN  (IF IsPowTie(p, q, 2 * m, 2)
              THEN {TieKey(p, q, "far", 2 * m)} ELSE {})
             \cup (IF IsPowTie(p, q, m, 2)
                   THEN {TieKey(p, q, "proximity", m)} ELSE {})
             \cup (IF ContactTie(p, q, m) /\ Cardinality(DifferingAxes(p, q)) > 1
                                         /\ ~ExactDifferences(p, q, 2)
                   THEN {TieKey(p, q, "contact", m)} ELSE {})

\* interface = self._analyze_component_pair(entry1, comp1, entry2, comp2)
AnalyzeComponentPair ==
    /\ interface = NotRun
    /\ interface' = _analyze_component_pair(Entry1, comp1, Entry2, comp2)
    /\ UNCHANGED <<comp1, comp2, aligned>>
    /\ UNCHANGED comparatorVars
    /\ UNCHANGED toolVars
    /\ UNCHANGED pow_ties

\* self._find_aligned_holes(holes1, holes2) on the holes of the two components
FindAlignedHoles ==
    /\ aligned = NotRun
    /\ aligned' = [pairs |-> _find_aligned_holes(HolesOf(comp1), HolesOf(comp2))]
    /\ UNCHANGED <<comp1, comp2, interface>>
    /\ UNCHANGED comparatorVars
    /\ UNCHANGED toolVars
    /\ UNCHANGED pow_ties

InitPair ==
    /\ baseline1 = NoBaseline
    /\ baseline2 = NoBaseline
    /\ changes = _reset_changes
    /\ ran = <<>>
    /\ reports = <<>>
    /\ outcome = "none"
    /\ calls = 0
    /\ called = "none"
    /\ baseline1_path = None
    /\ baseline2_path = None
    /\ pc = "none"
    /\ iterated = NotRun
    /\ interfaces1 = <<>>
    /\ interfaces2 = <<>>
    /\ interface_changes = None
    /\ impact_analysis = None
    /\ \E pair \in PairSamples : comp1 = pair[1] /\ comp2 = pair[2]
    /\ interface = NotRun
    /\ aligned = NotRun
    /\ pow_ties \in TieChoices(PairTies(comp1, comp2))

NextPair == AnalyzeComponentPair \/ FindAlignedHoles

SpecPair == InitPair /\ [][NextPair]_vars

(***************************************************************************)
(* ConfigurationManager.build_component_path and                           *)
(* add_unique_names_to_geometry (src/config_manager.py:423-485), which     *)
(* analyze_geometry calls last (line 350).  The position of a BOM item is  *)
(* its index in the BOM (build_bom numbers the items as it appends them),  *)
(* and every analysed entry has a label.                                   *)
(***************************************************************************)
\* The names the loop of build_component_path puts ahead of the name of the
\* component, each followed by the separator: from the item at index i
\* back to the first, an item of a lower level than the last one taken,
\* until one of level 0 is taken.
RECURSIVE PathAbove(_, _, _)
PathAbove(bom, i, current_level) ==
    IF i < 1 THEN ""
    ELSE IF bom[i].level < current_level
    THEN (IF bom[i].level = 0 THEN "" ELSE PathAbove(bom, i - 1, bom[i].level))
            \o bom[i].name \o " > "
    ELSE PathAbove(bom, i - 1, current_level)

\* The item bom_dict keeps for an entry is the last of the BOM.
PathFrom(bom, pos) == PathAbove(bom, pos - 1, bom[pos].level) \o bom[pos].name

\* label_name is label.GetLabelName(), the simple name of the component.
build_component_path(bom, entry, label_name) ==
    IF \E i \in 1..Len(bom) : bom[i].label_entry = entry
    THEN PathFrom(bom, CHOOSE i \in 1..Len(bom) :
                          /\ bom[i].label_entry = entry
                          /\ \A j \in 1..Len(bom) : bom[j].label_entry = entry => j <= i)
    ELSE label_name

\* name_counts[simple_name] > 1
NameCollides(geometric_props, name) ==
    Cardinality({k \in 1..Len(geometric_props) : geometric_props[k][2].name = name}) > 1

\* props with its unique_name and its path.
WithUniqueName(props, collides, path) ==
    [key \in DOMAIN props \cup {"unique_name", "path"} |->
        IF key = "unique_name" THEN (IF collides THEN path ELSE props.name)
        ELSE IF key = "path" THEN path
        ELSE props[key]]

add_unique_names_to_geometry(geometric_props, bom) ==
    [k \in 1..Len(geometric_props) |->
        <<geometric_props[k][1],
          WithUniqueName(geometric_props[k][2],
                         NameCollides(geometric_props, geometric_props[k][2].name),
                         build_component_path(bom, geometric_props[k][1],
                                              geometric_props[k][2].name))>>]

(***************************************************************************)
(* Baselines (generate_baseline_from_step, baseline_comparator.py:80-102): *)
(* analyze_geometry has run, geometric_properties is the map it leaves.    *)
(* A key the dict lacks is a field the record lacks.  component_registry   *)
(* is a function from entry to [name, parent_entry].                       *)
(***************************************************************************)
Baseline(id, checksum, bom, geom, schema, registry) ==
    [baseline_id |-> id, timestamp |-> "2024-01-01T00:00:00", file |-> id,
     checksum |-> checksum, bom |-> bom,
     geometric_properties |-> add_unique_names_to_geometry(geom, bom),
     metadata |-> [schema |-> schema], component_registry |-> registry]

\* The order of holes.sort(key=lambda h: (h['d'], h['x'], h['y']))
\* (config_manager.py:739).
HoleBefore(h1, h2) ==
    \/ h1.d < h2.d
    \/ h1.d = h2.d /\ h1.x < h2.x
    \/ h1.d = h2.d /\ h1.x = h2.x /\ h1.y < h2.y

\* The sort is stable and its key leaves z out: holes of one key stay in
\* the order in which the kernel handed over their faces.  h is put into
\* the sorted list s, which holds holes extracted after it: behind the
\* holes that come before it, ahead of those of its key.
InsertHole(h, s) ==
    SelectSeq(s, LAMBDA e : HoleBefore(e, h)) \o <<h>>
        \o SelectSeq(s, LAMBDA e : ~HoleBefore(e, h))
RECURSIVE SortedHoles(_)
SortedHoles(holes) ==
    IF holes = <<>> THEN <<>> ELSE InsertHole(Head(holes), SortedHoles(Tail(holes)))

(***************************************************************************)
(* Inputs and action of the topology differ alone: two baselines with one  *)
(* common component, whose holes are drawn from TopoHoles.                 *)
(***************************************************************************)
MaxTopoHoles == 3
MaxCalls == 2

\* Against the hole of diameter 5 at the origin: diameter 6, 0.3 away;
\* diameter 5, 0.4 away; diameter 5, 0.5 away; diameter 5, 10 away.  Then
\* a hole of diameter 5.05 and a hole of diameter 7, far from the others,
\* and a hole of diameter 7 under the last, which has its sort key.
TopoHoles ==
    {Hole(5000, 0, 0, 0), Hole(6000, 3, 0, 0), Hole(5000, 4, 0, 0),
     Hole(5000, 3, 4, 0), Hole(5000, 100, 0, 0),
     Hole(5050, 150, 0, 0), Hole(7000, 200, 0, 0), Hole(7000, 200, 0, 10)}
\* The lists the extraction stores: at most MaxTopoHoles distinct holes,
\* handed over in any order and sorted, and one hole extracted twice (the
\* two halves of one cylinder).
TopoHoleLists ==
    {SortedHoles(faces) :
        faces \in UNION {Orders(T) : T \in {U \in SUBSET TopoHoles :
                                                Cardinality(U) <= MaxTopoHoles}}}
    \cup {<<h, h>> : h \in TopoHoles}

TopoBaseline(id, checksum, holes, dims) ==
    Baseline(id, checksum, <<BomRecord("bracket", 1, "Part", Entry1)>>,
             <<<<Entry1, WithCenter(WithBbox(GeomProps("bracket", 100000, 60000, holes), dims),
                                    <<0, 0, 0>>)>>>>,
             "AP214", [e \in {Entry1} |-> [name |-> "bracket", parent_entry |-> NoParent]])

\* The comparisons of the holes of two lists that pow() decides.
HoleTies(holes1, holes2) ==
    {TieKey(PlaceOf(pair[1]), PlaceOf(pair[2]), "dist", PositionTolerance) :
        pair \in {pr \in Range(holes1) \X Range(holes2) :
                    IsPowTie(PlaceOf(pr[1]), PlaceOf(pr[2]), PositionTolerance, 1)}}

\* What a differ that subscripts the baselines raises before it has
\* appended anything: self.baseline1[key] and then self.baseline2[key], of
\* None (TypeError) or of a baseline without the key (KeyError).
SubscriptError(b1, b2, key) ==
    IF b1 = None THEN "TypeError"
    ELSE IF key \notin DOMAIN b1 THEN "KeyError"
    ELSE IF b2 = None THEN "TypeError"
    ELSE IF key \notin DOMAIN b2 THEN "KeyError"
    ELSE "none"

\* What a method that calls .get on the baselines raises: None has no get.
GetError(b1, b2) == IF b1 = None \/ b2 = None THEN "AttributeError" ELSE "none"

\* self.compare_topology(), called on its own: it appends to
\* changes['differences'], nothing is reset.
CompareTopology ==
    /\ pc = "none"
    /\ calls < MaxCalls
    /\ outcome # "hang"
    /\ IF SubscriptError(baseline1, baseline2, "geometric_properties") # "none"
       THEN /\ outcome' = SubscriptError(baseline1, baseline2, "geometric_properties")
            /\ UNCHANGED <<changes, iterated>>
       ELSE /\ \E ordCommon \in Orders(CommonEntries(baseline1, baseline2)),
                  ordRemoved \in HoleOrders(baseline1, baseline2, RemovedHoles),
                  ordAdded \in HoleOrders(baseline1, baseline2, AddedHoles) :
                  /\ changes' = [changes EXCEPT !.differences =
                                    @ \o compare_topology(baseline1, baseline2,
                                                          ordCommon, ordRemoved, ordAdded)]
                  /\ iterated' = [removed |-> ordRemoved, added |-> ordAdded]
            /\ outcome' = "ok"
    /\ ran' = <<"topology">>
    /\ called' = "compare_topology"
    /\ calls' = calls + 1
    /\ UNCHANGED <<baseline1, baseline2, baseline1_path, baseline2_path, reports>>
    /\ UNCHANGED toolVars
    /\ UNCHANGED pairVars
    /\ UNCHANGED pow_ties

\* self.compare_bom(), called on its own: it appends to the three
\* component lists, nothing is reset.
CompareBom ==
    /\ pc = "none"
    /\ calls < MaxCalls
    /\ outcome # "hang"
    /\ IF SubscriptError(baseline1, baseline2, "bom") # "none"
       THEN /\ outcome' = SubscriptError(baseline1, baseline2, "bom")
            /\ UNCHANGED changes
       ELSE /\ \E ordCommon \in Orders(CommonNames(baseline1, baseline2)) :
                  LET bom == compare_bom(baseline1, baseline2, ordCommon)
                  IN  changes' = [changes EXCEPT
                          !.components_removed = @ \o bom.components_removed,
                          !.components_added = @ \o bom.components_added,
                          !.components_modified = @ \o bom.components_modified]
            /\ outcome' = "ok"
    /\ ran' = <<"bom">>
    /\ called' = "compare_bom"
    /\ calls' = calls + 1
    /\ UNCHANGED <<baseline1, baseline2, baseline1_path, baseline2_path>>
    /\ UNCHANGED <<reports, iterated>>
    /\ UNCHANGED toolVars
    /\ UNCHANGED pairVars
    /\ UNCHANGED pow_ties

\* self.compare_geometry(), called on its own: it appends its records to
\* changes['geometry'], or does not return.
CompareGeometry ==
    /\ pc = "none"
    /\ calls < MaxCalls
    /\ outcome # "hang"
    /\ IF GetError(baseline1, baseline2) # "none"
       THEN /\ outcome' = GetError(baseline1, baseline2)
            /\ UNCHANGED changes
       ELSE LET result == compare_geometry(baseline1, baseline2)
            IN  /\ changes' = [changes EXCEPT !.geometry = @ \o result.records]
                /\ outcome' = IF result.loops THEN "hang" ELSE "ok"
    /\ ran' = <<"geometry">>
    /\ called' = "compare_geometry"
    /\ calls' = calls + 1
    /\ UNCHANGED <<baseline1, baseline2, baseline1_path, baseline2_path>>
    /\ UNCHANGED <<reports, iterated>>
    /\ UNCHANGED toolVars
    /\ UNCHANGED pairVars
    /\ UNCHANGED pow_ties

\* self.compare_metadata(), called on its own: it appends to
\* changes['metadata'].
CompareMetadata ==
    /\ pc = "none"
    /\ calls < MaxCalls
    /\ outcome # "hang"
    /\ IF GetError(baseline1, baseline2) # "none"
       THEN /\ outcome' = GetError(baseline1, baseline2)
            /\ UNCHANGED changes
       ELSE /\ changes' = [changes EXCEPT
                              !.metadata = @ \o compare_metadata(baseline1, baseline2)]
            /\ outcome' = "ok"
    /\ ran' = <<"metadata">>
    /\ called' = "compare_metadata"
    /\ calls' = calls + 1
    /\ UNCHANGED <<baseline1, baseline2, baseline1_path, baseline2_path>>
    /\ UNCHANGED <<reports, iterated>>
    /\ UNCHANGED toolVars
    /\ UNCHANGED pairVars
    /\ UNCHANGED pow_ties

\* self.generate_report(), called on its own, on the change set as the
\* calls made so far have left it: with no change it returns before it
\* looks at the baselines.
GenerateReport ==
    /\ pc = "none"
    /\ calls < MaxCalls
    /\ outcome # "hang"
    /\ IF TotalChanges(changes) = 0
       THEN /\ outcome' = "ok"
            /\ UNCHANGED reports
       ELSE IF GetError(baseline1, baseline2) # "none"
       THEN /\ outcome' = GetError(baseline1, baseline2)
            /\ UNCHANGED reports
       ELSE /\ reports' = Append(reports, generate_report(baseline1, baseline2, changes))
            /\ outcome' = "ok"
    /\ ran' = <<>>
    /\ called' = "generate_report"
    /\ calls' = calls + 1
    /\ UNCHANGED <<baseline1, baseline2, baseline1_path, baseline2_path>>
    /\ UNCHANGED <<changes, iterated>>
    /\ UNCHANGED toolVars
    /\ UNCHANGED pairVars
    /\ UNCHANGED pow_ties

InitTopo ==
    /\ \E h1 \in TopoHoleLists, h2 \in TopoHoleLists, d2 \in {DimsA, DimsB} :
          /\ baseline1 = TopoBaseline("v1", "c1", h1, DimsA)
          /\ baseline2 = TopoBaseline("v2", "c2", h2, d2)
          /\ pow_ties \in TieChoices(HoleTies(h1, h2))
    /\ changes = _reset_changes
    /\ ran = <<>>
    /\ reports = <<>>
    /\ outcome = "none"
    /\ calls = 0
    /\ called = "none"
    /\ baseline1_path = None
    /\ baseline2_path = None
    /\ pc = "none"
    /\ iterated = NotRun
    /\ interfaces1 = <<>>
    /\ interfaces2 = <<>>
    /\ interface_changes = None
    /\ impact_analysis = None
    /\ comp1 = NoComponent
    /\ comp2 = NoComponent
    /\ interface = NotRun
    /\ aligned = NotRun

\* One compare_topology() on a new comparator.
NextTopo == calls = 0 /\ CompareTopology

SpecTopo == InitTopo /\ [][NextTopo]_vars

(***************************************************************************)
(* Inputs of the topology differ on a component with many hole changes:    *)
(* PreviewLength holes on the second side and, on the first side, as many  *)
(* other holes as make MaxMessages or MaxMessages + 1 messages.  No two    *)
(* holes are near each other or of one diameter.                           *)
(***************************************************************************)
LargeHole(k) == Hole(3000 + 1000 * k, 1000 * k, 0, 0)
LargeHoles1 == [k \in 1..(MaxMessages - PreviewLength + 1) |-> LargeHole(k)]
LargeHoles2 ==
    [k \in 1..PreviewLength |-> LargeHole(MaxMessages - PreviewLength + 1 + k)]

InitTopoLarge ==
    /\ \E h1 \in {LargeHoles1, Tail(LargeHoles1)} :
          /\ baseline1 = TopoBaseline("v1", "c1", h1, DimsA)
          /\ baseline2 = TopoBaseline("v2", "c2", LargeHoles2, DimsA)
    /\ changes = _reset_changes
    /\ ran = <<>>
    /\ reports = <<>>
    /\ outcome = "none"
    /\ calls = 0
    /\ called = "none"
    /\ baseline1_path = None
    /\ baseline2_path = None
    /\ pc = "none"
    /\ iterated = NotRun
    /\ interfaces1 = <<>>
    /\ interfaces2 = <<>>
    /\ interface_changes = None
    /\ impact_analysis = None
    /\ comp1 = NoComponent
    /\ comp2 = NoComponent
    /\ interface = NotRun
    /\ aligned = NotRun
    /\ pow_ties = NoTies

NextTopoLarge == calls = 0 /\ CompareTopology

SpecTopoLarge == InitTopoLarge /\ [][NextTopoLarge]_vars

(***************************************************************************)
(* Inputs and actions of the comparator: compare() on a comparator that is *)
(* given new baselines between calls, and the tool pipeline of             *)
(* compare_step_files on the result of a first comparison.                 *)
(***************************************************************************)
Entry0 == "0:1:1"
Entry4 == "0:1:1:4"

\* A component as _analyze_single_component stores it
\* (config_manager.py:407-414), with its center; Baseline adds what
\* add_unique_names_to_geometry adds.
PlacedProps(name, volume, surface_area, holes, dims, cog) ==
    WithCenter(WithBbox(GeomProps(name, volume, surface_area, holes), dims), cog)
ComponentProps(name, volume, surface_area, holes, dims) ==
    PlacedProps(name, volume, surface_area, holes, dims, <<0, 0, 0>>)

RegistrySample ==
    [e \in {Entry0, Entry1, Entry2, Entry4} |->
        IF e = Entry0 THEN [name |-> "asm", parent_entry |-> NoParent]
        ELSE IF e = Entry1 THEN [name |-> "bracket", parent_entry |-> Entry0]
        ELSE IF e = Entry2 THEN [name |-> "panel", parent_entry |-> Entry0]
        ELSE [name |-> "cover", parent_entry |-> Entry0]]

\* A first version: an assembly of a bracket with two holes and a panel.
BaselineA ==
    Baseline("v1", "c1",
        <<BomRecord("asm", 0, "Assembly", Entry0), BomRecord("bracket", 1, "Part", Entry1),
          BomRecord("panel", 1, "Part", Entry2)>>,
        <<<<Entry1, ComponentProps("bracket", 10000000, 6000000,
                        <<Hole(5000, 0, 0, 0), Hole(5000, 100, 0, 0)>>, DimsA)>>,
          <<Entry2, ComponentProps("panel", 5000000, 3000000, <<>>, <<1000, 1000, 1000>>)>>>>,
        "AP214", RegistrySample)

\* A second version: the bracket is one level down, thicker, heavier, one of
\* its holes is wider and 0.3 away, it has a new hole; the panel is
\* replaced by a cover; the schema is another.
BaselineB ==
    Baseline("v2", "c2",
        <<BomRecord("asm", 0, "Assembly", Entry0), BomRecord("bracket", 2, "Part", Entry1),
          BomRecord("cover", 1, "Part", Entry4)>>,
        <<<<Entry1, ComponentProps("bracket", 12000000, 6000000,
                        <<Hole(5000, 100, 0, 0), Hole(6000, 3, 0, 0), Hole(8000, 150, 0, 0)>>,
                        DimsB)>>,
          <<Entry4, ComponentProps("cover", 2000000, 1000000, <<>>, <<1000, 1000, 1000>>)>>>>,
        "AP242", RegistrySample)

\* The first version with a bracket 0.02 heavier and nothing else changed.
BaselineC ==
    [BaselineA EXCEPT !.baseline_id = "v3", !.checksum = "c3",
        !.geometric_properties[1][2].volume = 10000200]

\* The same, with a registry in which the bracket is its own parent.
BaselineD ==
    [BaselineC EXCEPT !.baseline_id = "v4", !.checksum = "c4",
        !.component_registry[Entry1].parent_entry = Entry1]

\* A third version: the bracket of the second with two panels, 3 and 5
\* away from its center and 2 from each other.
Entry3 == "0:1:1:3"
BaselineE ==
    Baseline("v5", "c5",
        <<BomRecord("asm", 0, "Assembly", Entry0), BomRecord("bracket", 2, "Part", Entry1),
          BomRecord("panel", 1, "Part", Entry2), BomRecord("panel", 1, "Part", Entry3)>>,
        <<<<Entry1, ComponentProps("bracket", 12000000, 6000000,
                        <<Hole(5000, 100, 0, 0), Hole(6000, 3, 0, 0), Hole(8000, 150, 0, 0)>>,
                        DimsB)>>,
          <<Entry2, PlacedProps("panel", 5000000, 3000000, <<>>, <<1000, 1000, 1000>>,
                                <<300, 0, 0>>)>>,
          <<Entry3, PlacedProps("panel", 5000000, 3000000, <<>>, <<1000, 1000, 1000>>,
                                <<500, 0, 0>>)>>>>,
        "AP242", RegistrySample)

\* A baseline without one of its keys.
Without(b, key) == [k \in DOMAIN b \ {key} |-> b[k]]

BaselineSamples ==
    {BaselineA, BaselineB, [BaselineB EXCEPT !.checksum = "c1"],
     BaselineC, BaselineD, BaselineE,
     Without(BaselineA, "checksum"), Without(BaselineA, "bom")}

\* What a path names: the JSON file of a baseline, or nothing that can be
\* read (no such file, no JSON in it).  A STEP file is as the JSON file of
\* the baseline generate_baseline_from_step makes of it, and as an
\* unreadable file when that raises.
File(content) == [content |-> content]
Unreadable == [unreadable |-> TRUE]
PathSamples ==
    {<<File(BaselineA), File(BaselineB)>>,
     <<File(BaselineA), File(Unreadable)>>,
     <<File(Without(BaselineA, "checksum")), File(BaselineB)>>}

\* A path load_baselines can read: of None, .endswith raises
\* AttributeError, which the except clause catches as it does the errors
\* of open and of json.load.
Readable(path) == path # None /\ path.content # Unreadable

\* BaselineComparator.load_baselines on a comparator that holds b1 and b2:
\* what it returns and what the comparator holds then.  baseline1 is
\* assigned before the second file is looked at.
load_baselines(b1, b2, path1, path2) ==
    IF ~Readable(path1) THEN [returns |-> FALSE, baseline1 |-> b1, baseline2 |-> b2]
    ELSE IF ~Readable(path2)
    THEN [returns |-> FALSE, baseline1 |-> path1.content, baseline2 |-> b2]
    ELSE [returns |-> TRUE, baseline1 |-> path1.content, baseline2 |-> path2.content]

\* comparator.baseline1_path = ...; comparator.baseline2_path = ...: the
\* caller of a comparator of its own names the two files, once; __init__
\* takes no path and compare_step_files gives its comparator none.
SetPaths ==
    /\ pc = "none"
    /\ outcome # "hang"
    /\ baseline1_path = None
    /\ baseline2_path = None
    /\ \E paths \in PathSamples :
          /\ baseline1_path' = paths[1]
          /\ baseline2_path' = paths[2]
    /\ UNCHANGED <<baseline1, baseline2, changes, ran, reports, outcome, calls, called,
                    iterated>>
    /\ UNCHANGED toolVars
    /\ UNCHANGED pairVars
    /\ UNCHANGED pow_ties

\* self.load_baselines(), called for itself on a comparator that is not
\* that of a tool call.
LoadBaselines ==
    /\ pc = "none"
    /\ outcome # "hang"
    /\ baseline1' = load_baselines(baseline1, baseline2,
                                   baseline1_path, baseline2_path).baseline1
    /\ baseline2' = load_baselines(baseline1, baseline2,
                                   baseline1_path, baseline2_path).baseline2
    /\ outcome' = IF baseline1' = baseline1 /\ baseline2' = baseline2
                  THEN outcome ELSE "none"
    /\ UNCHANGED <<baseline1_path, baseline2_path, changes, ran, reports, calls, called,
                    iterated>>
    /\ UNCHANGED toolVars
    /\ UNCHANGED pairVars
    /\ UNCHANGED pow_ties

\* comparator.baseline1 = ...; comparator.baseline2 = ...: by
\* compare_step_files on the comparator it has built (MCP_STEP.py:183-184),
\* with the baselines generate_baseline_from_step has made, which have
\* every key; or by any caller on a comparator of its own, who may assign
\* one of the two and leave the other.
SetBaselines ==
    /\ pc \in {"none", "l183"}
    /\ calls < MaxCalls
    /\ outcome # "hang"
    /\ baseline1' \in BaselineSamples \cup {baseline1}
    /\ baseline2' \in BaselineSamples \cup {baseline2}
    /\ pc = "l183" => ValidBaseline(baseline1') /\ ValidBaseline(baseline2')
    /\ <<baseline1', baseline2'>> # <<baseline1, baseline2>>
    /\ outcome' = "none"
    /\ pc' = IF pc = "l183" THEN "l185" ELSE pc
    /\ UNCHANGED <<baseline1_path, baseline2_path, changes, ran, reports, calls, called,
                    iterated>>
    /\ UNCHANGED <<interfaces1, interfaces2, interface_changes, impact_analysis>>
    /\ UNCHANGED pairVars
    /\ UNCHANGED pow_ties

\* self.reports with what generate_report() has written, if anything.
WithReport(written, report) ==
    IF report = None THEN written ELSE Append(written, report)

\* Mutant of CompareLoaded: the checksums are not looked at.
Compare_NoShortCircuit(b1, b2) ==
    IF ~ValidBaseline(b1) \/ ~ValidBaseline(b2)
    THEN /\ outcome' = "ValueError"
         /\ ran' = <<>>
         /\ UNCHANGED <<changes, reports, iterated>>
    ELSE \E ordNames \in Orders(CommonNames(b1, b2)),
            ordCommon \in Orders(CommonEntries(b1, b2)),
            ordRemoved \in HoleOrders(b1, b2, RemovedHoles),
            ordAdded \in HoleOrders(b1, b2, AddedHoles) :
            IF compare_geometry(b1, b2).loops
            THEN /\ changes' = ChangesAfterGeometry(b1, b2, ordNames)
                 /\ ran' = <<"bom", "geometry">>
                 /\ outcome' = "hang"
                 /\ UNCHANGED <<reports, iterated>>
            ELSE /\ changes' = ChangesAfterDiffers(b1, b2, ordNames,
                                                   ordCommon, ordRemoved, ordAdded)
                 /\ ran' = <<"bom", "geometry", "topology", "metadata">>
                 /\ iterated' = [removed |-> ordRemoved, added |-> ordAdded]
                 /\ reports' = WithReport(reports, generate_report(b1, b2, changes'))
                 /\ outcome' = "ok"

\* Mutant of CompareLoaded: the change set is reset before the baselines
\* are validated.
Compare_ResetFirst(b1, b2) ==
    IF ~ValidBaseline(b1) \/ ~ValidBaseline(b2)
    THEN /\ outcome' = "ValueError"
         /\ ran' = <<>>
         /\ changes' = _reset_changes
         /\ UNCHANGED <<reports, iterated>>
    ELSE IF b1.checksum = b2.checksum
    THEN /\ changes' = _reset_changes
         /\ ran' = <<>>
         /\ outcome' = "ok"
         /\ UNCHANGED <<reports, iterated>>
    ELSE \E ordNames \in Orders(CommonNames(b1, b2)),
            ordCommon \in Orders(CommonEntries(b1, b2)),
            ordRemoved \in HoleOrders(b1, b2, RemovedHoles),
            ordAdded \in HoleOrders(b1, b2, AddedHoles) :
            IF compare_geometry(b1, b2).loops
            THEN /\ changes' = ChangesAfterGeometry(b1, b2, ordNames)
                 /\ ran' = <<"bom", "geometry">>
                 /\ outcome' = "hang"
                 /\ UNCHANGED <<reports, iterated>>
            ELSE /\ changes' = ChangesAfterDiffers(b1, b2, ordNames,
                                                   ordCommon, ordRemoved, ordAdded)
                 /\ ran' = <<"bom", "geometry", "topology", "metadata">>
                 /\ iterated' = [removed |-> ordRemoved, added |-> ordAdded]
                 /\ reports' = WithReport(reports, generate_report(b1, b2, changes'))
                 /\ outcome' = "ok"

\* Mutant of CompareLoaded: the change set is not reset, the differs append
\* to what the previous comparison left.
Compare_NoReset(b1, b2) ==
    IF ~ValidBaseline(b1) \/ ~ValidBaseline(b2)
    THEN /\ outcome' = "ValueError"
         /\ ran' = <<>>
         /\ UNCHANGED <<changes, reports, iterated>>
    ELSE IF b1.checksum = b2.checksum
    THEN /\ ran' = <<>>
         /\ outcome' = "ok"
         /\ UNCHANGED <<changes, reports, iterated>>
    ELSE \E ordNames \in Orders(CommonNames(b1, b2)),
            ordCommon \in Orders(CommonEntries(b1, b2)),
            ordRemoved \in HoleOrders(b1, b2, RemovedHoles),
            ordAdded \in HoleOrders(b1, b2, AddedHoles) :
            IF compare_geometry(b1, b2).loops
            THEN /\ changes' = [k \in DOMAIN changes |->
                                 changes[k] \o ChangesAfterGeometry(b1, b2, ordNames)[k]]
                 /\ ran' = <<"bom", "geometry">>
                 /\ outcome' = "hang"
                 /\ UNCHANGED <<reports, iterated>>
            ELSE /\ changes' = [k \in DOMAIN changes |->
                                 changes[k] \o ChangesAfterDiffers(b1, b2, ordNames,
                                                   ordCommon, ordRemoved, ordAdded)[k]]
                 /\ ran' = <<"bom", "geometry", "topology", "metadata">>
                 /\ iterated' = [removed |-> ordRemoved, added |-> ordAdded]
                 /\ reports' = WithReport(reports, generate_report(b1, b2, changes'))
                 /\ outcome' = "ok"

\* compare() from its validation on (baseline_comparator.py:116-154), on
\* the baselines b1 and b2 the comparator holds.
CompareLoaded(b1, b2) ==
    IF ~ValidBaseline(b1) \/ ~ValidBaseline(b2)
    THEN /\ outcome' = "ValueError"
         /\ ran' = <<>>
         /\ UNCHANGED <<changes, reports, iterated>>
    ELSE IF b1.checksum = b2.checksum
    THEN /\ changes' = _reset_changes
         /\ ran' = <<>>
         /\ outcome' = "ok"
         /\ UNCHANGED <<reports, iterated>>
    ELSE \E ordNames \in Orders(CommonNames(b1, b2)),
            ordCommon \in Orders(CommonEntries(b1, b2)),
            ordRemoved \in HoleOrders(b1, b2, RemovedHoles),
            ordAdded \in HoleOrders(b1, b2, AddedHoles) :
            IF compare_geometry(b1, b2).loops
            THEN /\ changes' = ChangesAfterGeometry(b1, b2, ordNames)
                 /\ ran' = <<"bom", "geometry">>
                 /\ outcome' = "hang"
                 /\ UNCHANGED <<reports, iterated>>
            ELSE /\ changes' = ChangesAfterDiffers(b1, b2, ordNames,
                                                   ordCommon, ordRemoved, ordAdded)
                 /\ ran' = <<"bom", "geometry", "topology", "metadata">>
                 /\ iterated' = [removed |-> ordRemoved, added |-> ordAdded]
                 /\ reports' = WithReport(reports, generate_report(b1, b2, changes'))
                 /\ outcome' = "ok"

\* Lines 111-114 of compare(): the baselines it holds when it is past them
\* and whether it is: with a baseline None it calls load_baselines().
HeldBaselines ==
    IF baseline1 = None \/ baseline2 = None
    THEN load_baselines(baseline1, baseline2, baseline1_path, baseline2_path)
    ELSE [returns |-> TRUE, baseline1 |-> baseline1, baseline2 |-> baseline2]

\* comparator.compare(): by compare_step_files (MCP_STEP.py:185), which
\* goes on to line 188 when it returns and to its except clause when it
\* raises, or by any caller.  When load_baselines() fails it raises
\* RuntimeError with the change set as it was.
Compare ==
    /\ pc \in {"none", "l185"}
    /\ calls < MaxCalls
    /\ outcome # "hang"
    /\ calls' = calls + 1
    /\ called' = "compare"
    /\ baseline1' = HeldBaselines.baseline1
    /\ baseline2' = HeldBaselines.baseline2
    /\ IF HeldBaselines.returns
       THEN CompareLoaded(HeldBaselines.baseline1, HeldBaselines.baseline2)
       ELSE /\ outcome' = "RuntimeError"
            /\ ran' = <<>>
            /\ UNCHANGED <<changes, reports, iterated>>
    /\ pc' = IF pc = "none" THEN "none"
             ELSE IF outcome' = "ok" THEN "l188"
             ELSE IF outcome' = "hang" THEN "l185"
             ELSE "raise"
    /\ UNCHANGED <<baseline1_path, baseline2_path>>
    /\ UNCHANGED <<interfaces1, interfaces2, interface_changes, impact_analysis>>
    /\ UNCHANGED pairVars
    /\ UNCHANGED pow_ties

\* Lines 188-194 with what analyze_interfaces() gives for the file of each
\* baseline: when one call raises, the except clause of line 250 is next
\* and nothing is assigned by the call that raised.
InterfacesFound(found, b1, b2) ==
    IF found[b1].raised
    THEN /\ pc' = "raise"
         /\ UNCHANGED <<interfaces1, interfaces2>>
    ELSE IF found[b2].raised
    THEN /\ pc' = "raise"
         /\ interfaces1' = found[b1].interfaces
         /\ UNCHANGED interfaces2
    ELSE /\ pc' = "l197"
         /\ interfaces1' = found[b1].interfaces
         /\ interfaces2' = found[b2].interfaces

\* cm1.analyze_geometry(); interfaces1 = cm1.analyze_interfaces(), and the
\* same for the second file (MCP_STEP.py:188-194), after compare() has
\* returned.  The geometric_props of a file are the geometric_properties of
\* the baseline generated from it.
AnalyzeInterfaces ==
    /\ pc = "l188"
    /\ InterfacesFound([b \in {baseline1, baseline2} |->
                            analyze_interfaces(b.geometric_properties)],
                       baseline1, baseline2)
    /\ UNCHANGED <<interface_changes, impact_analysis>>
    /\ UNCHANGED comparatorVars
    /\ UNCHANGED pairVars
    /\ UNCHANGED pow_ties

\* A comparator as __init__ leaves it (baseline_comparator.py:26-31): that
\* of a caller of its own, or the one compare_step_files has built
\* (MCP_STEP.py:176) and is about to give the baselines of its two files.
\* No two centers of a baseline are apart on several axes: pow() decides
\* nothing.
InitCompare ==
    /\ baseline1 = None
    /\ baseline2 = None
    /\ baseline1_path = None
    /\ baseline2_path = None
    /\ pc \in {"none", "l183"}
    /\ changes = _reset_changes
    /\ ran = <<>>
    /\ reports = <<>>
    /\ outcome = "none"
    /\ calls = 0
    /\ called = "none"
    /\ iterated = NotRun
    /\ interfaces1 = <<>>
    /\ interfaces2 = <<>>
    /\ interface_changes = None
    /\ impact_analysis = None
    /\ comp1 = NoComponent
    /\ comp2 = NoComponent
    /\ interface = NotRun
    /\ aligned = NotRun
    /\ pow_ties = NoTies

NextCompare ==
    \/ Compare
    \/ SetBaselines
    \/ SetPaths
    \/ LoadBaselines
    \/ CompareBom
    \/ CompareGeometry
    \/ CompareTopology
    \/ CompareMetadata
    \/ GenerateReport
    \/ AnalyzeInterfaces
    \/ CompareInterfaces
    \/ AnalyzeImpact

SpecCompare == InitCompare /\ [][NextCompare]_vars

(***************************************************************************)
(* Inputs and action of the BOM differ alone.  Two instances of a part     *)
(* share its name: the bracket is found at level 1 or 2, as a part or as a *)
(* sub-assembly, under one stable id or another.                           *)
(***************************************************************************)
MaxBom == 2

BomItems ==
    {BomRecord("bracket", 1, "Part", Entry1), BomRecord("bracket", 1, "Part", Entry2),
     BomRecord("bracket", 2, "Part", Entry2), BomRecord("bracket", 2, "Assembly", Entry1),
     BomRecord("panel", 1, "Part", Entry2), BomRecord("cover", 1, "Part", Entry4)}
BomLists == SeqsUpTo(BomItems, MaxBom)

BomBaseline(id, checksum, bom) == Baseline(id, checksum, bom, <<>>, "AP214", <<>>)

InitBom ==
    /\ \E bom1 \in BomLists, bom2 \in BomLists :
          /\ baseline1 = BomBaseline("v1", "c1", bom1)
          /\ baseline2 = BomBaseline("v2", "c2", bom2)
    /\ changes = _reset_changes
    /\ ran = <<>>
    /\ reports = <<>>
    /\ outcome = "none"
    /\ calls = 0
    /\ called = "none"
    /\ baseline1_path = None
    /\ baseline2_path = None
    /\ pc = "none"
    /\ iterated = NotRun
    /\ interfaces1 = <<>>
    /\ interfaces2 = <<>>
    /\ interface_changes = None
    /\ impact_analysis = None
    /\ comp1 = NoComponent
    /\ comp2 = NoComponent
    /\ interface = NotRun
    /\ aligned = NotRun
    /\ pow_ties = NoTies

\* One compare_bom() on a new comparator.
NextBom == calls = 0 /\ CompareBom

SpecBom == InitBom /\ [][NextBom]_vars

(***************************************************************************)
(* Inputs and action of the geometry differ alone.  Each baseline has the  *)
(* bracket or not, with one of the volumes 1000.00, 1000.01, 1000.02 and   *)
(* of the areas 600.0, 600.004, 600.0149 (the floats of 1000.01 and        *)
(* 1000.02 are more than 0.01 apart, those of 1000.00 and 1000.01 are      *)
(* not), and the panel or not, with one of two volumes; the registry of the *)
(* first is the tree, a registry in which the bracket is its own parent,   *)
(* or none.                                                                *)
(***************************************************************************)
GeomVolumes == {10000000, 10000100, 10000200}
GeomAreas == {6000000, 6000040, 6000149}
BracketGeoms ==
    {<<>>} \cup {<<<<Entry1, ComponentProps("bracket", v, a, <<>>, DimsA)>>>> :
                    v \in GeomVolumes, a \in GeomAreas}
PanelGeoms ==
    {<<>>} \cup {<<<<Entry2, ComponentProps("panel", v, 3000000, <<>>, DimsA)>>>> :
                    v \in {5000000, 5000200}}
GeomMaps == {g1 \o g2 : g1 \in BracketGeoms, g2 \in PanelGeoms}
GeomRegistries ==
    {RegistrySample, [RegistrySample EXCEPT ![Entry1].parent_entry = Entry1], <<>>}

GeomBaseline(id, checksum, geom, registry) ==
    Baseline(id, checksum, <<>>, geom, "AP214", registry)

InitGeom ==
    /\ \E geom1 \in GeomMaps, geom2 \in GeomMaps, registry \in GeomRegistries :
          /\ baseline1 = GeomBaseline("v1", "c1", geom1, registry)
          /\ baseline2 = GeomBaseline("v2", "c2", geom2, RegistrySample)
    /\ changes = _reset_changes
    /\ ran = <<>>
    /\ reports = <<>>
    /\ outcome = "none"
    /\ calls = 0
    /\ called = "none"
    /\ baseline1_path = None
    /\ baseline2_path = None
    /\ pc = "none"
    /\ iterated = NotRun
    /\ interfaces1 = <<>>
    /\ interfaces2 = <<>>
    /\ interface_changes = None
    /\ impact_analysis = None
    /\ comp1 = NoComponent
    /\ comp2 = NoComponent
    /\ interface = NotRun
    /\ aligned = NotRun
    /\ pow_ties = NoTies

\* One compare_geometry() on a new comparator.
NextGeom == calls = 0 /\ CompareGeometry

SpecGeom == InitGeom /\ [][NextGeom]_vars

(***************************************************************************)
(* Inputs of the interface differ alone: fastenings of one pair of names   *)
(* in either order that differ by count or diameter, contacts 1 and 2      *)
(* units of distance apart, proximities at 1.2 and 2.2, whose floats are   *)
(* more than one unit apart.                                               *)
(***************************************************************************)
MaxIfaceList == 2

IfaceDiffSamples ==
    {FasteningIface("bracket", "panel", "0:1:1:1", "0:1:1:2", 2, 5000,
                    <<Position(0, 0, 0), Position(100, 0, 0)>>),
     FasteningIface("panel", "bracket", "0:1:1:3", "0:1:1:1", 3, 5000,
                    <<Position(0, 0, 0), Position(100, 0, 0), Position(200, 0, 0)>>),
     FasteningIface("bracket", "panel", "0:1:1:1", "0:1:1:2", 2, 6000,
                    <<Position(0, 0, 0), Position(100, 0, 0)>>),
     ContactIface("bracket", "cover", "0:1:1:1", "0:1:1:4", 500),
     ContactIface("cover", "bracket", "0:1:1:4", "0:1:1:1", 600),
     ContactIface("bracket", "cover", "0:1:1:1", "0:1:1:4", 700),
     ProximityIface("cover", "panel", "0:1:1:4", "0:1:1:2", 120),
     ProximityIface("panel", "cover", "0:1:1:2", "0:1:1:4", 220)}

InitIfaces ==
    /\ interfaces1 \in SeqsUpTo(IfaceDiffSamples, MaxIfaceList)
    /\ interfaces2 \in SeqsUpTo(IfaceDiffSamples, MaxIfaceList)
    /\ baseline1 = NoBaseline
    /\ baseline2 = NoBaseline
    /\ changes = _reset_changes
    /\ ran = <<>>
    /\ reports = <<>>
    /\ outcome = "none"
    /\ calls = 0
    /\ called = "none"
    /\ baseline1_path = None
    /\ baseline2_path = None
    /\ pc = "l197"
    /\ iterated = NotRun
    /\ interface_changes = None
    /\ impact_analysis = None
    /\ comp1 = NoComponent
    /\ comp2 = NoComponent
    /\ interface = NotRun
    /\ aligned = NotRun
    /\ pow_ties = NoTies

NextIfaces == CompareInterfaces

SpecIfaces == InitIfaces /\ [][NextIfaces]_vars

(***************************************************************************)
(* Properties of the impact pipeline (SpecImpact).                         *)
(***************************************************************************)
ImpactDone == impact_analysis # None
InterfacesCompared == interface_changes # None

AnyCritical(risks) == \E i \in 1..Len(risks) : risks[i].severity = "critical"

\* The priority list of the specification, read on the risk lists of a report.
PriorityLevel(report, chg) ==
    IF AnyCritical(report.interface_risks) THEN "critical_interface"
    ELSE IF report.clash_risks # <<>> THEN "critical_clash"
    ELSE IF report.assembly_risks # <<>> THEN "critical_assembly"
    ELSE IF chg.components_removed # <<>> THEN "critical_missing"
    ELSE IF report.retrofit_risks # <<>> THEN "major_retrofit"
    ELSE IF chg.components_added # <<>> THEN "major_bom"
    ELSE IF chg.differences # <<>> THEN "minor_geometry"
    ELSE "none"

\* C1: the level _analyze_impact returns is the first match of the fixed
\* priority list (critical interface risk, clash risk, assembly risk,
\* component removed, retrofit risk, component added, any topology
\* difference, none), and no other level is produced.
C1_FixedPriority ==
    ImpactDone =>
        impact_analysis.level = PriorityLevel(impact_analysis.details, changes)

\* The key of a fastening interface of the first list has no interface in
\* the second list.
FasteningGone(iface) ==
    /\ iface.type = "fastening"
    /\ make_key(iface) \notin IfaceKeys(interfaces2)

\* The last interface of the first list with the key of iface.
LastWithKey(iface) == IfaceDict(interfaces1)[make_key(iface)]

\* C4 as stated: every fastening interface of the first list whose pair has
\* no fastening interface in the second list is in removed, and the level is
\* critical_interface.
C4_RemovedFasteningAsStated ==
    InterfacesCompared =>
        \A i \in 1..Len(interfaces1) :
            FasteningGone(interfaces1[i]) =>
                /\ interfaces1[i] \in Range(interface_changes.removed)
                /\ ImpactDone => impact_analysis.level = "critical_interface"

\* C4, amended: for every fastening interface of the first list whose pair
\* has no fastening interface in the second list, removed holds the last
\* interface of the first list with that key (a fastening interface of that
\* pair), and the level is critical_interface whatever the change set holds.
C4_RemovedFastening ==
    InterfacesCompared =>
        \A i \in 1..Len(interfaces1) :
            FasteningGone(interfaces1[i]) =>
                /\ LastWithKey(interfaces1[i]) \in Range(interface_changes.removed)
                /\ LastWithKey(interfaces1[i]).type = "fastening"
                /\ ImpactDone => impact_analysis.level = "critical_interface"

\* Witness of C4: a removed fastening interface, with an envelope change and
\* a removed component in the change set, and the impact analysed.
C4_Witness ==
    /\ InterfacesCompared
    /\ ImpactDone
    /\ \E i \in 1..Len(interfaces1) : FasteningGone(interfaces1[i])
    /\ impact_analysis.details.clash_risks # <<>>
    /\ changes.components_removed # <<>>
    /\ impact_analysis.level = "critical_interface"

NoInterfaceChanges ==
    /\ interface_changes.added = <<>>
    /\ interface_changes.removed = <<>>
    /\ interface_changes.modified = <<>>

\* C5: a component removed and a component added, with no topology
\* difference and no interface change, give level critical_missing.
C5_RemovedDominatesAdded ==
    (/\ ImpactDone
     /\ changes.components_removed # <<>>
     /\ changes.components_added # <<>>
     /\ changes.differences = <<>>
     /\ NoInterfaceChanges)
    => impact_analysis.level = "critical_missing"

\* Witness of C5: scenario D analysed after an interface comparison that
\* found nothing.
C5_Witness ==
    /\ ImpactDone
    /\ InterfacesCompared
    /\ NoInterfaceChanges
    /\ changes.components_removed # <<>>
    /\ changes.components_added # <<>>
    /\ changes.differences = <<>>
    /\ impact_analysis.level = "critical_missing"

(***************************************************************************)
(* Properties of interface inference (SpecPair).                           *)
(***************************************************************************)
PairAnalysed == interface # NotRun
HasInterface == interface # NotRun /\ interface # None

\* C6: a pair gives exactly one of fastening, contact, proximity or no
\* interface, and the severity of an interface is fixed by its type:
\* fastening critical, contact major, proximity minor.
C6_SeverityByType ==
    PairAnalysed =>
        \/ interface = None
        \/ /\ interface.type \in {"fastening", "contact", "proximity"}
           /\ interface.type = "fastening" => interface.severity = "critical"
           /\ interface.type = "contact" => interface.severity = "major"
           /\ interface.type = "proximity" => interface.severity = "minor"

\* Witness of C6: a fastening interface with a single fastener, critical.
C6_Witness ==
    /\ HasInterface
    /\ interface.type = "fastening"
    /\ interface.fastener_count = 1
    /\ interface.severity = "critical"

\* The quantities of C7, read on the two components: the square of the
\* distance d between the centers and the largest extent M, in hundredths.
\* d and the thresholds are the floats the program computes, and
\* ClaimFar, ClaimContact and ClaimProximity compare them as it does.
ClaimD2 ==
    (comp1.center_of_gravity[1] - comp2.center_of_gravity[1]) ^ 2
    + (comp1.center_of_gravity[2] - comp2.center_of_gravity[2]) ^ 2
    + (comp1.center_of_gravity[3] - comp2.center_of_gravity[3]) ^ 2
ClaimM ==
    CHOOSE m \in Range(comp1.bbox.dims) \cup Range(comp2.bbox.dims) :
        \A v \in Range(comp1.bbox.dims) \cup Range(comp2.bbox.dims) : v <= m

ClaimFar ==
    DistanceSide(comp1.center_of_gravity, comp2.center_of_gravity,
                 2 * ClaimM, 2, "far") > 0
ClaimContact ==
    ContactSide(comp1.center_of_gravity, comp2.center_of_gravity, ClaimM) < 0
ClaimProximity ==
    DistanceSide(comp1.center_of_gravity, comp2.center_of_gravity,
                 ClaimM, 2, "proximity") < 0

\* The test of C9 on a pair of holes: diameters within 0.1, at least two
\* axis differences below 2, 3D separation below 4, on the floats of the
\* rounded coordinates.
ClaimBelow(x1, x2, t) == FloatCompare(x1, x2, t, 1) < 0
ClaimAligned(h1, h2) ==
    /\ FloatCompare(h1.d, h2.d, 100, 3) <= 0
    /\ \/ ClaimBelow(h1.x, h2.x, 20) /\ ClaimBelow(h1.y, h2.y, 20)
       \/ ClaimBelow(h1.x, h2.x, 20) /\ ClaimBelow(h1.z, h2.z, 20)
       \/ ClaimBelow(h1.y, h2.y, 20) /\ ClaimBelow(h1.z, h2.z, 20)
    /\ DistanceSide(<<h1.x, h1.y, h1.z>>, <<h2.x, h2.y, h2.z>>, 40, 1, "dist_3d") < 0

ClaimAnyAligned ==
    \E i \in 1..Len(HolesOf(comp1)), j \in 1..Len(HolesOf(comp2)) :
        ClaimAligned(HolesOf(comp1)[i], HolesOf(comp2)[j])

ClaimType ==
    IF ClaimFar THEN "none"
    ELSE IF ClaimAnyAligned THEN "fastening"
    ELSE IF ClaimContact THEN "contact"
    ELSE IF ClaimProximity THEN "proximity"
    ELSE "none"

TypeOf(iface) == IF iface = None THEN "none" ELSE iface.type

HasEnvelope(comp) == "bbox" \in DOMAIN comp /\ "dims" \in DOMAIN comp.bbox
BothComplete ==
    /\ HasEnvelope(comp1) /\ HasEnvelope(comp2)
    /\ "center_of_gravity" \in DOMAIN comp1 /\ "center_of_gravity" \in DOMAIN comp2

\* C7: for two components with an envelope (and a center), d the distance
\* between the centers and M the largest extent of both: no interface if
\* d > 2M, else fastening if a hole pair is aligned, else contact if
\* d < 0.3 M, else proximity if d < M, else no interface.
C7_Classification ==
    (PairAnalysed /\ BothComplete) => TypeOf(interface) = ClaimType

\* Witness of C7 (scenario C): centers 10 apart, largest extent 40, no
\* aligned holes, a contact of severity major.
C7_Witness ==
    /\ PairAnalysed
    /\ BothComplete
    /\ ClaimD2 = 1000 ^ 2
    /\ ClaimM = 4000
    /\ ~ClaimAnyAligned
    /\ HolesOf(comp1) # <<>> /\ HolesOf(comp2) # <<>>
    /\ TypeOf(interface) = "contact"
    /\ interface.severity = "major"

\* C8: a pair is skipped (no interface) whenever either component lacks an
\* envelope or lacks a center of mass.
C8_IncompleteSkipped ==
    (PairAnalysed /\ ~BothComplete) => interface = None

\* The index in holes2 of the first hole that passes the test of C9 for h1,
\* 0 when none does.
ClaimFirstMatch(h1, holes2) ==
    IF \E j \in 1..Len(holes2) : ClaimAligned(h1, holes2[j])
    THEN CHOOSE j \in 1..Len(holes2) :
            /\ ClaimAligned(h1, holes2[j])
            /\ \A j2 \in 1..(j - 1) : ~ClaimAligned(h1, holes2[j2])
    ELSE 0

\* C9: every returned pair passes the test (diameters within 0.1, two axis
\* differences below 2, separation below 4); the pairs come from distinct
\* holes of the first list, in list order, each with the first hole of the
\* second list that passes the test.
C9_AlignedPairs ==
    aligned # NotRun =>
        LET holes1 == HolesOf(comp1)
            holes2 == HolesOf(comp2)
            pairs == aligned.pairs
        IN  /\ \A k \in 1..Len(pairs) : ClaimAligned(pairs[k][1], pairs[k][2])
            /\ \E f \in [1..Len(pairs) -> 1..Len(holes1)] :
                  /\ \A k, k2 \in 1..Len(pairs) : k < k2 => f[k] < f[k2]
                  /\ \A k \in 1..Len(pairs) :
                        /\ pairs[k][1] = holes1[f[k]]
                        /\ ClaimFirstMatch(holes1[f[k]], holes2) # 0
                        /\ pairs[k][2] = holes2[ClaimFirstMatch(holes1[f[k]], holes2)]

\* Witness of C9: the first hole has two candidates in the second list and
\* is paired with the earlier one, after a hole that fails the test.
C9_Witness ==
    /\ aligned # NotRun
    /\ Len(aligned.pairs) = 1
    /\ Len(HolesOf(comp2)) = 2
    /\ ~ClaimAligned(HolesOf(comp1)[1], HolesOf(comp2)[1])
    /\ aligned.pairs[1] = <<HolesOf(comp1)[1], HolesOf(comp2)[2]>>
    /\ aligned.pairs[1][1].d # aligned.pairs[1][2].d

(***************************************************************************)
(* Properties of the comparator (SpecCompare).                             *)
(***************************************************************************)
\* Every list of a change set is empty.
ChangeSetEmpty(chg) == \A k \in DOMAIN chg : chg[k] = <<>>

\* The step is a call of compare().
CompareStep == calls' = calls + 1 /\ called' = "compare"

\* The step is a call of compare() that has two baselines to compare: the
\* comparator holds both, or load_baselines() has read both.
ComparePairStep == CompareStep /\ HeldBaselines.returns

EqualChecksumsOf(b1, b2) ==
    /\ ValidBaseline(b1)
    /\ ValidBaseline(b2)
    /\ b1.checksum = b2.checksum
EqualChecksums == EqualChecksumsOf(baseline1, baseline2)

\* C2: a compare() on two baselines that have the required keys and equal
\* checksums runs no differ, writes no report and leaves every list of the
\* change set empty, whatever the other fields of the baselines are.  The
\* baselines are those the comparator holds once compare() has them.
C2_ChecksumShortCircuit ==
    [][(ComparePairStep /\ EqualChecksumsOf(baseline1', baseline2')) =>
            /\ outcome' = "ok"
            /\ ran' = <<>>
            /\ reports' = reports
            /\ ChangeSetEmpty(changes')]_vars

\* C2 witness: compare() has returned on two baselines of equal checksums
\* whose BOMs and geometry differ, on a comparator whose previous comparison
\* had found changes and written a report; the change set is empty.
C2_Witness ==
    /\ called = "compare"
    /\ outcome = "ok"
    /\ EqualChecksums
    /\ baseline1.bom # baseline2.bom
    /\ baseline1.geometric_properties # baseline2.geometric_properties
    /\ calls = 2
    /\ reports # <<>>
    /\ ran = <<>>
    /\ ChangeSetEmpty(changes)

SelfCompared == called = "compare" /\ outcome = "ok" /\ baseline1 = baseline2
SelfInterfaces == InterfacesCompared /\ interfaces1 = interfaces2

\* C3: after compare() of a baseline against itself the added, removed and
\* modified components, the geometry, the differences and the metadata are
\* empty; _compare_interfaces of a list against itself returns empty added,
\* removed and modified lists; and _analyze_impact on these results returns
\* the level none.
C3_SelfComparison ==
    /\ SelfCompared =>
          /\ changes.components_added = <<>>
          /\ changes.components_removed = <<>>
          /\ changes.components_modified = <<>>
          /\ changes.geometry = <<>>
          /\ changes.differences = <<>>
          /\ changes.metadata = <<>>
    /\ SelfInterfaces =>
          /\ interface_changes.added = <<>>
          /\ interface_changes.removed = <<>>
          /\ interface_changes.modified = <<>>
    /\ (SelfCompared /\ SelfInterfaces /\ ImpactDone) =>
          impact_analysis.level = "none"

\* C3 witness: a baseline was compared against itself, its interface list,
\* which holds two interfaces of the same key, was compared against itself,
\* and the impact was analysed.
C3_Witness ==
    /\ SelfCompared
    /\ SelfInterfaces
    /\ ImpactDone
    /\ \E i, j \in 1..Len(interfaces1) :
          /\ i < j
          /\ make_key(interfaces1[i]) = make_key(interfaces1[j])
          /\ interfaces1[i] # interfaces1[j]

(***************************************************************************)
(* Properties of hole reconciliation (SpecTopo).                           *)
(***************************************************************************)
TopologyRan == iterated # NotRun

\* The hole messages the record of an entry holds, <<>> when the entry has
\* no record or its record has no hole diff.
HoleMessages(entry) ==
    LET recs == SelectSeq(changes.differences, LAMBDA rec : rec.entry = entry)
        diffs == IF recs = <<>> THEN <<>>
                 ELSE SelectSeq(recs[1].differences, LAMBDA diff : diff.kind = "holes")
    IN  IF diffs = <<>> THEN <<>> ELSE diffs[1].shown

\* The reading of the claim of one removed hole r against the added holes
\* not yet consumed (avail, indices into the list A): the index consumed
\* and the message.
ClaimNear(r, a) ==
    DistanceSide(<<r.x, r.y, r.z>>, <<a.x, a.y, a.z>>, 5, 1, "dist") < 0
ClaimStep(r, A, avail, c, msg) ==
    LET near == {i \in avail : ClaimNear(r, A[i])}
        same == {i \in avail : A[i].d = r.d}
    IN  IF near # {}
        THEN /\ c \in near
             /\ msg = [tag |-> "Modifie", x |-> r.x, y |-> r.y, old |-> r.d, new |-> A[c].d]
        ELSE IF same # {}
        THEN /\ c \in same
             /\ msg = [tag |-> "Deplace", d |-> r.d, x |-> A[c].x, y |-> A[c].y]
        ELSE /\ c = 0
             /\ msg = [tag |-> "Supprime", d |-> r.d, x |-> r.x, y |-> r.y]

\* msgs is a reconciliation of the removed holes R, in this order, against
\* the added holes A, as the claim describes it: c[k] is the added hole the
\* k-th removed hole consumes, 0 for none.
ClaimReconciles(R, A, msgs) ==
    \E c \in [1..Len(R) -> 0..Len(A)] :
        LET before(k) == {c[i] : i \in 1..(k - 1)}
            left == (1..Len(A)) \ {c[k] : k \in 1..Len(R)}
        IN  /\ Len(msgs) = Len(R) + Cardinality(left)
            /\ \A k \in 1..Len(R) :
                  ClaimStep(R[k], A, (1..Len(A)) \ before(k), c[k], msgs[k])
            /\ \E ord \in Orders(left) :
                  \A i \in 1..Len(ord) :
                      msgs[Len(R) + i] =
                          [tag |-> "Ajoute", d |-> A[ord[i]].d,
                           x |-> A[ord[i]].x, y |-> A[ord[i]].y]

\* C10: after compare_topology, the hole messages of every common component
\* are a reconciliation of its removed holes, in processing order, against
\* its added holes: a position match within 0.5 gives "diameter modified" and
\* consumes the added hole, else a same-diameter match gives "moved" and
\* consumes it, else the hole is "deleted"; each added hole left is "newly
\* created".
C10_Reconciliation ==
    TopologyRan =>
        \A entry \in CommonEntries(baseline1, baseline2) :
            ClaimReconciles(iterated.removed[entry], iterated.added[entry],
                            HoleMessages(entry))

\* C10 witness: a removed hole had a position match while an added hole of
\* its own diameter was also free, and the messages hold a modification, a
\* move, a deletion and a creation.
C10_Witness ==
    /\ TopologyRan
    /\ LET R == iterated.removed[Entry1]
           A == iterated.added[Entry1]
           msgs == HoleMessages(Entry1)
       IN  /\ Len(R) >= 1 /\ Len(A) >= 2
           /\ \E i, j \in 1..Len(A) :
                 /\ i # j
                 /\ ClaimNear(R[1], A[i]) /\ A[i].d # R[1].d
                 /\ A[j].d = R[1].d /\ ~ClaimNear(R[1], A[j])
           /\ msgs[1].tag = "Modifie"
           /\ {msgs[k].tag : k \in 1..Len(msgs)} = {"Modifie", "Deplace", "Supprime", "Ajoute"}

\* C11: a removed hole with no added hole within 0.5 of its position, and
\* with a not yet consumed added hole whose diameter is within 0.1 of its
\* own, is reported as moved and not as deleted.
C11_NearDiameterMoved ==
    TopologyRan =>
        \A entry \in CommonEntries(baseline1, baseline2) :
            LET R == iterated.removed[entry]
                A == iterated.added[entry]
                msgs == HoleMessages(entry)
            IN  \A k \in 1..Len(R) :
                    LET left == WorkAddedAt(R, A, k)
                    IN  (/\ \A i \in 1..Len(A) : ~ClaimNear(R[k], A[i])
                         /\ \E i \in 1..Len(left) : Abs(left[i].d - R[k].d) <= 100)
                        => msgs[k].tag = "Deplace"

\* The ascending (diameter, x, y) orders of a set of holes: one, or several
\* when holes of the set differ by z alone.
ClaimAscending(S) ==
    {s \in Orders(S) : \A i \in 1..(Len(s) - 1) : ~HoleBefore(s[i + 1], s[i])}

\* C12: the hole messages of a component depend only on its two sets of
\* holes: they are those of the removed holes taken in ascending
\* (diameter, x, y) order against the added holes in that same order,
\* whatever order the sets were iterated in.
C12_OrderIndependent ==
    TopologyRan =>
        \A entry \in CommonEntries(baseline1, baseline2) :
            LET props1 == GeomGet(baseline1.geometric_properties, entry)
                props2 == GeomGet(baseline2.geometric_properties, entry)
            IN  \E ascRemoved \in ClaimAscending(RemovedHoles(props1, props2)),
                   ascAdded \in ClaimAscending(AddedHoles(props1, props2)) :
                    HoleMessages(entry) = MappedChanges(ascRemoved, ascAdded)

\* The sets of hole tuples of the two sides of an entry.
ClaimSet1(entry) == Range(HolesOf(GeomGet(baseline1.geometric_properties, entry)))
ClaimSet2(entry) == Range(HolesOf(GeomGet(baseline2.geometric_properties, entry)))

\* C13: the removed holes are set1 minus set2 and the added holes set2 minus
\* set1; with the unchanged holes they give back set1 and set2, they are
\* disjoint, and a hole listed twice produces no message (no message when
\* the two sets are equal, one message at most per removed or added hole).
C13_SymmetricDifference ==
    TopologyRan =>
        \A entry \in CommonEntries(baseline1, baseline2) :
            LET set1 == ClaimSet1(entry)
                set2 == ClaimSet2(entry)
                removed == Range(iterated.removed[entry])
                added == Range(iterated.added[entry])
            IN  /\ removed = set1 \ set2
                /\ added = set2 \ set1
                /\ removed \cup (set1 \cap set2) = set1
                /\ added \cup (set1 \cap set2) = set2
                /\ removed \cap added = {}
                /\ Len(iterated.removed[entry]) = Cardinality(removed)
                /\ Len(iterated.added[entry]) = Cardinality(added)
                /\ set1 = set2 => HoleMessages(entry) = <<>>
                /\ Len(HoleMessages(entry)) <= Cardinality(removed) + Cardinality(added)

\* C13 witness: the first side lists one hole twice, the second lists it
\* once with another hole; the hole listed twice is neither removed nor
\* added and the only message is about the other hole.
C13_Witness ==
    /\ TopologyRan
    /\ LET holes1 == HolesOf(GeomGet(baseline1.geometric_properties, Entry1))
           holes2 == HolesOf(GeomGet(baseline2.geometric_properties, Entry1))
       IN  /\ Len(holes1) = 2 /\ holes1[1] = holes1[2]
           /\ Len(holes2) = 2 /\ holes1[1] \in Range(holes2)
           /\ iterated.removed[Entry1] = <<>>
           /\ Len(iterated.added[Entry1]) = 1
           /\ Len(HoleMessages(Entry1)) = 1

\* C14: the record of a component keeps every message of its hole
\* reconciliation, also when there are more than MaxMessages of them.
C14_FullListPreserved ==
    TopologyRan =>
        \A entry \in CommonEntries(baseline1, baseline2) :
            LET mapped_changes == MappedChanges(iterated.removed[entry],
                                                iterated.added[entry])
            IN  Len(mapped_changes) > MaxMessages =>
                    \A k \in 1..Len(mapped_changes) :
                        \E rec \in Range(changes.differences) :
                            /\ rec.entry = entry
                            /\ \E diff \in Range(rec.differences) :
                                  /\ diff.kind = "holes"
                                  /\ mapped_changes[k] \in Range(diff.shown)

(***************************************************************************)
(* Properties of the BOM differ (SpecBom).                                 *)
(***************************************************************************)
BomRan == ran = <<"bom">>
NamesIn(list) == {list[i].name : i \in 1..Len(list)}
NoNameTwice(list) == \A i, j \in 1..Len(list) : list[i].name = list[j].name => i = j

\* The levels and the types a BOM gives to a name.
ClaimLevels(bom, n) == {bom[i].level : i \in {j \in 1..Len(bom) : bom[j].name = n}}
ClaimTypes(bom, n) == {bom[i].type : i \in {j \in 1..Len(bom) : bom[j].name = n}}

\* The last item of a BOM that bears a name.
ClaimLast(bom, n) ==
    bom[CHOOSE i \in 1..Len(bom) :
            /\ bom[i].name = n
            /\ \A j \in 1..Len(bom) : bom[j].name = n => j <= i]

\* What C15 says of the removed and added lists and of the three lists
\* together.
ClaimBomLists ==
    LET N1 == BomNames(baseline1.bom)
        N2 == BomNames(baseline2.bom)
    IN  /\ NamesIn(changes.components_removed) = N1 \ N2
        /\ NamesIn(changes.components_added) = N2 \ N1
        /\ NamesIn(changes.components_modified) \subseteq N1 \cap N2
        /\ NoNameTwice(changes.components_removed)
        /\ NoNameTwice(changes.components_added)
        /\ NoNameTwice(changes.components_modified)

\* C15 as stated: the modified names are the common names to which the two
\* BOMs give different levels or different types, with one change text per
\* differing field.
C15_BomDiffAsStated ==
    BomRan =>
        /\ ClaimBomLists
        /\ NamesIn(changes.components_modified) =
              {n \in BomNames(baseline1.bom) \cap BomNames(baseline2.bom) :
                  \/ ClaimLevels(baseline1.bom, n) # ClaimLevels(baseline2.bom, n)
                  \/ ClaimTypes(baseline1.bom, n) # ClaimTypes(baseline2.bom, n)}

\* C15: removed holds the names of N1 \ N2, added those of N2 \ N1, modified
\* the common names whose last item in the first BOM and last item in the
\* second differ by level or type, with one change text per differing
\* field; no name is in two lists or twice in one; the stable ids play no
\* part.
C15_BomDiff ==
    BomRan =>
        /\ ClaimBomLists
        /\ NamesIn(changes.components_modified) =
              {n \in BomNames(baseline1.bom) \cap BomNames(baseline2.bom) :
                  \/ ClaimLast(baseline1.bom, n).level # ClaimLast(baseline2.bom, n).level
                  \/ ClaimLast(baseline1.bom, n).type # ClaimLast(baseline2.bom, n).type}
        /\ \A i \in 1..Len(changes.components_modified) :
              LET rec == changes.components_modified[i]
                  item1 == ClaimLast(baseline1.bom, rec.name)
                  item2 == ClaimLast(baseline2.bom, rec.name)
                  fields == {rec.changes[k].field : k \in 1..Len(rec.changes)}
              IN  /\ ("niveau" \in fields) = (item1.level # item2.level)
                  /\ ("type" \in fields) = (item1.type # item2.type)
                  /\ Len(rec.changes) = Cardinality(fields)
                  /\ \A k \in 1..Len(rec.changes) :
                        /\ rec.changes[k].field = "niveau" =>
                              /\ rec.changes[k].old = item1.level
                              /\ rec.changes[k].new = item2.level
                        /\ rec.changes[k].field = "type" =>
                              /\ rec.changes[k].old = item1.type
                              /\ rec.changes[k].new = item2.type

\* C15 witness: the bracket changed level, type and stable id and is in
\* modified with two change texts, the panel is removed, the cover added.
C15_Witness ==
    /\ BomRan
    /\ baseline1.bom = <<BomRecord("bracket", 1, "Part", Entry2),
                         BomRecord("panel", 1, "Part", Entry2)>>
    /\ baseline2.bom = <<BomRecord("bracket", 2, "Assembly", Entry1),
                         BomRecord("cover", 1, "Part", Entry4)>>
    /\ NamesIn(changes.components_removed) = {"panel"}
    /\ NamesIn(changes.components_added) = {"cover"}
    /\ Len(changes.components_modified) = 1
    /\ Len(changes.components_modified[1].changes) = 2

(***************************************************************************)
(* Properties of the geometry differ (SpecGeom).                           *)
(***************************************************************************)
GeometryReturned == ran = <<"geometry">> /\ outcome = "ok"

\* The ids of the records of changes['geometry'].
GeometryEntries == {changes.geometry[i].entry : i \in 1..Len(changes.geometry)}

\* Whether the volumes or the areas of an id of both maps are more than
\* 0.01 apart, as floats.
ClaimDeltaExceeds(entry) ==
    LET props1 == GeomGet(baseline1.geometric_properties, entry)
        props2 == GeomGet(baseline2.geometric_properties, entry)
    IN  \/ FloatCompare(props1.volume, props2.volume, 100, 4) > 0
        \/ FloatCompare(props1.surface_area, props2.surface_area, 100, 4) > 0

\* C16: when compare_geometry returns, the ids of its records are the ids
\* of both maps whose volumes or areas are more than 0.01 apart, each with
\* one record, which holds the values of the two sides.
C16_GeometryRecords ==
    GeometryReturned =>
        /\ GeometryEntries =
              {entry \in GeomKeys(baseline1.geometric_properties)
                            \cap GeomKeys(baseline2.geometric_properties) :
                  ClaimDeltaExceeds(entry)}
        /\ \A i, j \in 1..Len(changes.geometry) :
              changes.geometry[i].entry = changes.geometry[j].entry => i = j
        /\ \A i \in 1..Len(changes.geometry) :
              LET rec == changes.geometry[i]
                  props1 == GeomGet(baseline1.geometric_properties, rec.entry)
                  props2 == GeomGet(baseline2.geometric_properties, rec.entry)
              IN  /\ rec.volume_before = props1.volume
                  /\ rec.volume_after = props2.volume
                  /\ rec.surface_before = props1.surface_area
                  /\ rec.surface_after = props2.surface_area

\* C16 witness: the bracket is 0.01 larger in volume, which as floats is
\* no more than 0.01, and 0.0109 larger in area, and has a record; the
\* panel is in the first baseline only and has none.
C16_Witness ==
    /\ GeometryReturned
    /\ GeomKeys(baseline1.geometric_properties) = {Entry1, Entry2}
    /\ GeomKeys(baseline2.geometric_properties) = {Entry1}
    /\ GeomGet(baseline1.geometric_properties, Entry1).volume
          = GeomGet(baseline2.geometric_properties, Entry1).volume - 100
    /\ GeomGet(baseline1.geometric_properties, Entry1).surface_area
          = GeomGet(baseline2.geometric_properties, Entry1).surface_area - 109
    /\ GeometryEntries = {Entry1}

(***************************************************************************)
(* Properties of the interface differ (SpecIfaces).                        *)
(***************************************************************************)
\* The key of the claim: the pair of components, whatever their order, and
\* the type.
ClaimKey(iface) == <<{iface.component1, iface.component2}, iface.type>>
ClaimKeys(list) == {ClaimKey(list[i]) : i \in 1..Len(list)}
ClaimKeysOf(list) == [i \in 1..Len(list) |-> ClaimKey(list[i])]

\* The last interface of a list that has a key.
ClaimLastOfKey(list, k) ==
    list[CHOOSE i \in 1..Len(list) :
            /\ ClaimKey(list[i]) = k
            /\ \A j \in 1..Len(list) : ClaimKey(list[j]) = k => j <= i]

\* The test of the claim on two interfaces of one key; a distance unit is
\* 100 hundredths, and the distances are compared as floats.
ClaimIfaceModified(iface1, iface2) ==
    IF iface1.type = "fastening"
    THEN \/ iface1.fastener_count # iface2.fastener_count
         \/ iface1.fastener_diameter # iface2.fastener_diameter
    ELSE FloatCompare(iface1.distance, iface2.distance, 100, 2) > 0

\* C17 as stated: added holds the interfaces of the second list whose key
\* is not in the first, removed those of the first list whose key is not
\* in the second.
C17_InterfaceDiffAsStated ==
    InterfacesCompared =>
        /\ Range(interface_changes.added) =
              {interfaces2[i] : i \in {j \in 1..Len(interfaces2) :
                                  ClaimKey(interfaces2[j]) \notin ClaimKeys(interfaces1)}}
        /\ Range(interface_changes.removed) =
              {interfaces1[i] : i \in {j \in 1..Len(interfaces1) :
                                  ClaimKey(interfaces1[j]) \notin ClaimKeys(interfaces2)}}

\* C17: (A, B, t) and (B, A, t) are one key; added holds, once per key only
\* in the second list, the last interface of that list with the key, and
\* removed likewise for the first list; modified holds one record per key
\* of both lists whose last interfaces differ by fastener count or diameter
\* (fastening) or by more than 1 in distance (contact, proximity), with the
\* fields of the new interface and the prior interface as previous state.
C17_InterfaceDiff ==
    InterfacesCompared =>
        LET K1 == ClaimKeys(interfaces1)
            K2 == ClaimKeys(interfaces2)
            added == interface_changes.added
            removed == interface_changes.removed
            modified == interface_changes.modified
        IN  /\ Range(ClaimKeysOf(added)) = K2 \ K1
            /\ Len(added) = Cardinality(K2 \ K1)
            /\ \A i \in 1..Len(added) :
                  added[i] = ClaimLastOfKey(interfaces2, ClaimKey(added[i]))
            /\ Range(ClaimKeysOf(removed)) = K1 \ K2
            /\ Len(removed) = Cardinality(K1 \ K2)
            /\ \A i \in 1..Len(removed) :
                  removed[i] = ClaimLastOfKey(interfaces1, ClaimKey(removed[i]))
            /\ Range(ClaimKeysOf(modified)) =
                  {k \in K1 \cap K2 :
                      ClaimIfaceModified(ClaimLastOfKey(interfaces1, k),
                                         ClaimLastOfKey(interfaces2, k))}
            /\ Len(modified) = Cardinality(Range(ClaimKeysOf(modified)))
            /\ \A i \in 1..Len(modified) :
                  LET iface1 == ClaimLastOfKey(interfaces1, ClaimKey(modified[i]))
                      iface2 == ClaimLastOfKey(interfaces2, ClaimKey(modified[i]))
                  IN  /\ \A f \in DOMAIN iface2 : modified[i][f] = iface2[f]
                      /\ modified[i].previous_state = iface1
                      /\ modified[i].change_description # <<>>

\* C17 witness: the fastening of bracket and panel is named in the other
\* order and has another count: one modified record and nothing added or
\* removed; the contact 1 unit further is not modified.
C17_Witness ==
    /\ InterfacesCompared
    /\ Len(interfaces1) = 2 /\ Len(interfaces2) = 2
    /\ interfaces1[1].type = "fastening" /\ interfaces1[1].component1 = "bracket"
    /\ interfaces2[1].type = "fastening" /\ interfaces2[1].component1 = "panel"
    /\ interfaces1[2].type = "contact" /\ interfaces1[2].distance = 500
    /\ interfaces2[2].type = "contact" /\ interfaces2[2].distance = 600
    /\ interface_changes.added = <<>>
    /\ interface_changes.removed = <<>>
    /\ Len(interface_changes.modified) = 1
    /\ interface_changes.modified[1].type = "fastening"
    /\ interface_changes.modified[1].previous_state = interfaces1[1]

(***************************************************************************)
(* Properties of the topology risks of _analyze_impact (SpecImpact).       *)
(***************************************************************************)
\* Whether a risk list of the report names a component.
ClaimHasRisk(risks, component) ==
    \E i \in 1..Len(risks) : risks[i].component = component

\* The tags of the hole messages the diffs of a topology item hold.
ClaimHoleTags(item) ==
    UNION {{diff.shown[k].tag : k \in 1..Len(diff.shown)} :
              diff \in {d \in Range(item.differences) : d.kind = "holes"}}

\* C18: each component of the topology change set has a clash risk if its
\* envelope changed, an assembly risk if one of its holes is deleted or
\* moved, and a retrofit risk if one of its holes has another diameter or
\* is new, each whatever the other changes of the component.
C18_TopologyRisks ==
    ImpactDone =>
        \A n \in 1..Len(changes.differences) :
            LET item == changes.differences[n]
                details == impact_analysis.details
            IN  /\ (\E diff \in Range(item.differences) : diff.kind = "Encombrement")
                      => ClaimHasRisk(details.clash_risks, item.component)
                /\ ClaimHoleTags(item) \cap {"Supprime", "Deplace"} # {}
                      => ClaimHasRisk(details.assembly_risks, item.component)
                /\ ClaimHoleTags(item) \cap {"Modifie", "Ajoute"} # {}
                      => ClaimHasRisk(details.retrofit_risks, item.component)

\* The severity the claim gives to a removed and to a modified interface.
ClaimRemovedSeverity(iface) == IF iface.type = "fastening" THEN "critical" ELSE "major"
ClaimModifiedSeverity(iface) == IF iface.type = "fastening" THEN "major" ELSE "minor"

\* C19: the interface risks are one risk per removed interface, critical for
\* a fastening and major otherwise, then one per modified interface, major
\* for a fastening and minor otherwise, and no other.
C19_InterfaceRisks ==
    (ImpactDone /\ InterfacesCompared) =>
        LET risks == impact_analysis.details.interface_risks
            removed == interface_changes.removed
            modified == interface_changes.modified
        IN  /\ Len(risks) = Len(removed) + Len(modified)
            /\ impact_analysis.statistics.interface_risks = Len(removed) + Len(modified)
            /\ \A i \in 1..Len(removed) :
                  /\ risks[i].severity = ClaimRemovedSeverity(removed[i])
                  /\ risks[i].components = <<removed[i].component1, removed[i].component2>>
            /\ \A i \in 1..Len(modified) :
                  /\ risks[Len(removed) + i].severity = ClaimModifiedSeverity(modified[i])
                  /\ risks[Len(removed) + i].components =
                        <<modified[i].component1, modified[i].component2>>

\* C19 witness: a removed contact and a modified fastening, two major
\* risks.
C19_Witness ==
    /\ ImpactDone
    /\ InterfacesCompared
    /\ Len(interface_changes.removed) = 1
    /\ interface_changes.removed[1].type = "contact"
    /\ Len(interface_changes.modified) = 1
    /\ interface_changes.modified[1].type = "fastening"
    /\ Len(impact_analysis.details.interface_risks) = 2
    /\ impact_analysis.details.interface_risks[1].severity = "major"
    /\ impact_analysis.details.interface_risks[2].severity = "major"

(***************************************************************************)
(* Properties of the validation of compare() (SpecCompare).                *)
(***************************************************************************)
\* The fields the claim requires of a baseline.
ClaimRequired ==
    {"baseline_id", "timestamp", "file", "checksum", "bom", "geometric_properties"}
ClaimInvalid(b) == \E key \in ClaimRequired : key \notin DOMAIN b

\* C20: a compare() on baselines one of which lacks a required field
\* raises the invalid-baseline error, runs no differ, adds no report and
\* leaves the change set as it was, whatever the checksums.  The baselines
\* are those the comparator holds once compare() has them, set by the
\* caller or read from the files.
C20_InvalidBaseline ==
    [][(/\ ComparePairStep
        /\ ClaimInvalid(baseline1') \/ ClaimInvalid(baseline2')) =>
            /\ outcome' = "ValueError"
            /\ ran' = <<>>
            /\ reports' = reports
            /\ changes' = changes]_vars

\* C20 witness: after a comparison that found differences, a compare() on
\* two baselines of one checksum, the second without its BOM, has raised
\* the error and the change set still holds the differences.
C20_Witness ==
    /\ called = "compare"
    /\ outcome = "ValueError"
    /\ calls = 2
    /\ "bom" \notin DOMAIN baseline2
    /\ "checksum" \in DOMAIN baseline1 /\ "checksum" \in DOMAIN baseline2
    /\ baseline1.checksum = baseline2.checksum
    /\ changes.differences # <<>>
    /\ changes.components_removed # <<>>

(***************************************************************************)
(* Properties of the whole engine (SpecCompare).                           *)
(***************************************************************************)
\* The step is a call of compare(), of compare_bom, compare_geometry,
\* compare_topology or compare_metadata on its own, of _compare_interfaces
\* or of _analyze_impact.
OperationStep ==
    \/ calls' # calls /\ called' # "generate_report"
    \/ interface_changes' # interface_changes
    \/ impact_analysis' # impact_analysis

ClaimAlignedPairs ==
    LET holes1 == HolesOf(comp1)
        holes2 == HolesOf(comp2)
        first(i) == CHOOSE j \in 1..Len(holes2) :
                        /\ ClaimAligned(holes1[i], holes2[j])
                        /\ \A j2 \in 1..(j - 1) : ~ClaimAligned(holes1[i], holes2[j2])
        matched == SelectSeq([i \in 1..Len(holes1) |-> i],
                             LAMBDA i : \E j \in 1..Len(holes2) :
                                            ClaimAligned(holes1[i], holes2[j]))
    IN  [k \in 1..Len(matched) |-> <<holes1[matched[k]], holes2[first(matched[k])]>>]

\* The number of pairs whose hole of the first component has diameter d.
ClaimPairsOfDiameter(pairs, d) == Cardinality({k \in 1..Len(pairs) : pairs[k][1].d = d})

\* C22: a fastening interface counts the aligned pairs, lists the position
\* of the first component's hole of each pair, in order, and its diameter
\* is one that no other diameter of a matched hole of the first component
\* beats by its number of pairs.
C22_FasteningPayload ==
    (PairAnalysed /\ HasInterface /\ interface.type = "fastening") =>
        LET pairs == ClaimAlignedPairs
        IN  /\ interface.fastener_count = Len(pairs)
            /\ Len(interface.fastener_positions) = Len(pairs)
            /\ \A k \in 1..Len(pairs) :
                  interface.fastener_positions[k] =
                      [x |-> pairs[k][1].x, y |-> pairs[k][1].y, z |-> pairs[k][1].z]
            /\ \E k \in 1..Len(pairs) : pairs[k][1].d = interface.fastener_diameter
            /\ \A k \in 1..Len(pairs) :
                  ClaimPairsOfDiameter(pairs, pairs[k][1].d)
                      <= ClaimPairsOfDiameter(pairs, interface.fastener_diameter)

\* C22 witness: three aligned pairs, the first of diameter 5 and two of
\* diameter 6; the interface has three fasteners of diameter 6.
C22_Witness ==
    /\ PairAnalysed
    /\ HasInterface
    /\ interface.type = "fastening"
    /\ HolesOf(comp1) = PairHolesMixed
    /\ interface.fastener_count = 3
    /\ interface.fastener_diameter = 6000

(***************************************************************************)
(* Further properties of hole reconciliation (SpecTopoLarge, SpecTopo).    *)
(***************************************************************************)
\* The hole diffs of the record of an entry (none or one).
HoleDiffs(entry) ==
    LET recs == SelectSeq(changes.differences, LAMBDA rec : rec.entry = entry)
    IN  IF recs = <<>> THEN <<>>
        ELSE SelectSeq(recs[1].differences, LAMBDA diff : diff.kind = "holes")

\* C23: the summary of more than 10 messages holds the first 5 and the
\* suffix "+N" with N the number of messages less 5; the summary of 1 to 10
\* messages holds them all and has no suffix.
C23_SummaryShortened ==
    TopologyRan =>
        \A entry \in CommonEntries(baseline1, baseline2) :
            LET mapped_changes == MappedChanges(iterated.removed[entry],
                                                iterated.added[entry])
                total == Len(mapped_changes)
            IN  total > 0 =>
                    /\ Len(HoleDiffs(entry)) = 1
                    /\ IF total > 10
                       THEN /\ HoleDiffs(entry)[1].shown = SubSeq(mapped_changes, 1, 5)
                            /\ HoleDiffs(entry)[1].more = total - 5
                       ELSE /\ HoleDiffs(entry)[1].shown = mapped_changes
                            /\ HoleDiffs(entry)[1].more = 0

\* C23 witness: 11 messages, a summary of 5 with the suffix +6.
C23_Witness ==
    /\ TopologyRan
    /\ Len(MappedChanges(iterated.removed[Entry1], iterated.added[Entry1])) = 11
    /\ Len(HoleDiffs(Entry1)) = 1
    /\ Len(HoleDiffs(Entry1)[1].shown) = 5
    /\ HoleDiffs(Entry1)[1].more = 6

\* C24: a call of compare_geometry returns whatever the parent links of
\* the registry are, and the path of a component that has no registry
\* entry is its bare name.
C24_PathTerminates ==
    ran = <<"geometry">> =>
        /\ outcome = "ok"
        /\ \A i \in 1..Len(changes.geometry) :
              changes.geometry[i].entry \notin DOMAIN RegistryOf(baseline1) =>
                  changes.geometry[i].full_path = <<changes.geometry[i].component>>

\* The change sets a comparator that has never been used can hold after a
\* compare() of the baselines b1 and b2.
ClaimFreshChanges(b1, b2) ==
    IF b1.checksum = b2.checksum
    THEN {_reset_changes}
    ELSE {ChangesAfterDiffers(b1, b2, ordNames, ordCommon, ordRemoved, ordAdded) :
              ordNames \in Orders(CommonNames(b1, b2)),
              ordCommon \in Orders(CommonEntries(b1, b2)),
              ordRemoved \in HoleOrders(b1, b2, RemovedHoles),
              ordAdded \in HoleOrders(b1, b2, AddedHoles)}

\* C25: after a compare() that returns, the change set is one that a new
\* comparator would hold for the same baselines, whatever the comparisons
\* made before; it is empty when the checksums are equal.
C25_NoStateBetweenComparisons ==
    [][(CompareStep /\ outcome' = "ok") =>
            /\ changes' \in ClaimFreshChanges(baseline1', baseline2')
            /\ baseline1'.checksum = baseline2'.checksum => ChangeSetEmpty(changes')]_vars

\* C25 witness: two comparisons that each wrote a report; the change set
\* holds the one removed and the one added component of the second.
C25_Witness ==
    /\ calls = 2
    /\ called = "compare"
    /\ outcome = "ok"
    /\ Len(reports) = 2
    /\ Len(changes.components_removed) = 1
    /\ Len(changes.components_added) = 1
    /\ Len(changes.differences) = 1

\* C26: no hole of the second component is in two aligned pairs, and a
\* fastening interface has no more fasteners than the component with the
\* fewer holes has holes.
C26_SecondHoleConsumed ==
    /\ aligned # NotRun =>
          LET idx == AlignedIndices(HolesOf(comp1), HolesOf(comp2))
          IN  /\ \A k1, k2 \in 1..Len(idx) : idx[k1][2] = idx[k2][2] => k1 = k2
              /\ Len(aligned.pairs) <= Len(HolesOf(comp1))
              /\ Len(aligned.pairs) <= Len(HolesOf(comp2))
    /\ (HasInterface /\ interface.type = "fastening") =>
          /\ interface.fastener_count <= Len(HolesOf(comp1))
          /\ interface.fastener_count <= Len(HolesOf(comp2))

\* The interface of the pair taken in the other order.
ClaimSwapped == _analyze_component_pair(Entry2, comp2, Entry1, comp1)

\* C27: the pair taken in either order gives no interface both times, or
\* interfaces of one type and one severity.
C27_OrderOfPair ==
    PairAnalysed =>
        IF interface = None THEN ClaimSwapped = None
        ELSE /\ ClaimSwapped # None
             /\ ClaimSwapped.type = interface.type
             /\ ClaimSwapped.severity = interface.severity

\* C27 witness: a fastening in both orders, of three fasteners in one and
\* two in the other.
C27_Witness ==
    /\ HasInterface
    /\ interface.type = "fastening"
    /\ interface.fastener_count = 3
    /\ ClaimSwapped.type = "fastening"
    /\ ClaimSwapped.fastener_count = 2

\* C28: a message of modified diameter reports an old and a new diameter
\* that differ.
C28_ModifiedDiameterDiffers ==
    TopologyRan =>
        \A entry \in CommonEntries(baseline1, baseline2) :
            \A k \in 1..Len(HoleMessages(entry)) :
                HoleMessages(entry)[k].tag = "Modifie" =>
                    HoleMessages(entry)[k].old # HoleMessages(entry)[k].new

\* The number of messages of a list that have one of a set of tags.
ClaimTagged(msgs, tags) == Cardinality({k \in 1..Len(msgs) : msgs[k].tag \in tags})

\* C29: the messages of a component are one per removed hole (modified,
\* moved or deleted), in the order of the removed holes, then one per added
\* hole that no removed hole consumed, each about another added hole; a
\* modified or moved message consumes one added hole, so the messages number
\* the removed plus the added holes less the consumed pairs.
C29_EveryHoleOnce ==
    TopologyRan =>
        \A entry \in CommonEntries(baseline1, baseline2) :
            LET R == iterated.removed[entry]
                A == iterated.added[entry]
                msgs == HoleMessages(entry)
                consumed == ClaimTagged(msgs, {"Modifie", "Deplace"})
                created == {a \in Range(A) : \E k \in 1..Len(msgs) : msgs[k] = AjouteMsg(a)}
            IN  /\ Len(msgs) = Len(R) + Len(A) - consumed
                /\ \A k \in 1..Len(msgs) :
                      IF k <= Len(R)
                      THEN /\ msgs[k].tag \in {"Modifie", "Deplace", "Supprime"}
                           /\ msgs[k].tag = "Modifie" =>
                                 /\ msgs[k].old = R[k].d
                                 /\ msgs[k].x = R[k].x /\ msgs[k].y = R[k].y
                           /\ msgs[k].tag \in {"Deplace", "Supprime"} => msgs[k].d = R[k].d
                      ELSE msgs[k].tag = "Ajoute"
                /\ consumed <= Len(A)
                /\ ClaimTagged(msgs, {"Ajoute"}) = Len(A) - consumed
                /\ Cardinality(created) = Len(A) - consumed

\* C29 witness: three removed and three added holes, one pair matched by
\* position and one by diameter: a modified, a moved, a deleted and a
\* created hole, four messages.
C29_Witness ==
    /\ TopologyRan
    /\ Len(iterated.removed[Entry1]) = 3
    /\ Len(iterated.added[Entry1]) = 3
    /\ Len(HoleMessages(Entry1)) = 4
    /\ ClaimTagged(HoleMessages(Entry1), {"Modifie"}) = 1
    /\ ClaimTagged(HoleMessages(Entry1), {"Deplace"}) = 1
    /\ ClaimTagged(HoleMessages(Entry1), {"Supprime"}) = 1
    /\ ClaimTagged(HoleMessages(Entry1), {"Ajoute"}) = 1

(***************************************************************************)
(* Further properties of the interface differ (SpecIfaces).                *)
(***************************************************************************)
\* No key is borne by two interfaces of a list.
ClaimKeyOnce(list) ==
    \A i, j \in 1..Len(list) : ClaimKey(list[i]) = ClaimKey(list[j]) => i = j

\* The results of _compare_interfaces(interfaces2, interfaces1).
ClaimSwappedDiffs ==
    LET keys1 == IfaceKeys(interfaces1)
        keys2 == IfaceKeys(interfaces2)
    IN  {_compare_interfaces(interfaces2, interfaces1, ordAdded, ordRemoved, ordCommon) :
            ordAdded \in Orders(keys1 \ keys2),
            ordRemoved \in Orders(keys2 \ keys1),
            ordCommon \in Orders(keys1 \cap keys2)}

\* C30: no key is in two of the lists added, removed and modified, nor
\* twice in one; with the arguments swapped the keys of added and removed
\* change places and the keys of modified stay.
C30_DisjointAndSwapped ==
    InterfacesCompared =>
        LET added == ClaimKeys(interface_changes.added)
            removed == ClaimKeys(interface_changes.removed)
            modified == ClaimKeys(interface_changes.modified)
        IN  /\ added \cap removed = {}
            /\ added \cap modified = {}
            /\ removed \cap modified = {}
            /\ ClaimKeyOnce(interface_changes.added)
            /\ ClaimKeyOnce(interface_changes.removed)
            /\ ClaimKeyOnce(interface_changes.modified)
            /\ \A swapped \in ClaimSwappedDiffs :
                  /\ ClaimKeys(swapped.added) = removed
                  /\ ClaimKeys(swapped.removed) = added
                  /\ ClaimKeys(swapped.modified) = modified

\* C30 witness: a fastening removed, a proximity added and a contact
\* modified, whose distance went from 7.00 to 5.00.
C30_Witness ==
    /\ InterfacesCompared
    /\ Len(interface_changes.added) = 1
    /\ Len(interface_changes.removed) = 1
    /\ Len(interface_changes.modified) = 1
    /\ interface_changes.added[1].type = "proximity"
    /\ interface_changes.removed[1].type = "fastening"
    /\ interface_changes.modified[1].type = "contact"
    /\ interface_changes.modified[1].distance = 500
    /\ interface_changes.modified[1].previous_state.distance = 700
====
